---- MODULE Spec2Model ----
(***************************************************************************)
(* Model of the cpptxrx operation coordination engine: the threadsafe      *)
(* endpoint dispatcher of include/cpptxrx_factory.h (CPPTXRX_THREADSAFE),  *)
(* its op lifecycle bitmask (include/cpptxrx_op_backend.h) and the         *)
(* management thread that drives the transport hooks.                      *)
(*                                                                         *)
(* Every block of code that runs while the dispatcher mutex `m` is held is *)
(* one atomic action; a condition-variable wait is an action guarded by    *)
(* the wait's predicate; a timed wait may also leave on its deadline.      *)
(* Transport hooks are the environment: each hook chooses nondetermin-     *)
(* istically among the outcomes the hook interface allows.                 *)
(***************************************************************************)
EXTENDS Integers, FiniteSets, Sequences, TLC

\* ------------------------------------------------------------------ bounds
\* total number of public calls (open/reopen/close/send/receive/destroy) issued
MaxCalls == 3
\* last instant of the discrete steady clock
MaxTime == 1
\* capacity, in bytes, of the storage arrays of a filter
MaxPacketSize == 4
\* longest message the user sends or the transport delivers to a filter chain
MaxMessage == 2
\* send or receive calls made on a filter chain
MaxFilterCalls == 2
\* messages the transport delivers to a receive chain
MaxChunks == 2
\* byte sequences given to slip::encode
MaxFrames == 2

\* the user threads that call the public API
Callers == {"A", "B"}

\* ------------------------------------------------------------------ op categories
OPEN      == "OPEN"
CLOSE     == "CLOSE"
SEND      == "SEND"
RECEIVE   == "RECEIVE"
DESTROY   == "DESTROY"
CONSTRUCT == "CONSTRUCT"

op_category_e == {OPEN, CLOSE, SEND, RECEIVE, DESTROY, CONSTRUCT}
OpCats == {OPEN, CLOSE, SEND, RECEIVE}

\* ------------------------------------------------------------------ status_e
SUCCESS                        == "SUCCESS"
TIMED_OUT                      == "TIMED_OUT"
DISABLED                       == "DISABLED"
CANCELED_IN_DESTROY            == "CANCELED_IN_DESTROY"
NOT_OPEN                       == "NOT_OPEN"
FAILED_ALREADY_OPEN            == "FAILED_ALREADY_OPEN"
NO_PRIOR_OPEN_ARGS             == "NO_PRIOR_OPEN_ARGS"
START_NEW_OP                   == "START_NEW_OP"
OP_IN_PROGRESS                 == "OP_IN_PROGRESS"
INVALID_ARG_RECV_CALLBACK_FUNC == "INVALID_ARG_RECV_CALLBACK_FUNC"
\* a transport specific error code (end_op_with_error_code / set_error_code)
ERROR_CODE                     == "ERROR_CODE"

\* not a status: the value of `returned` before any call has returned
NoResult == "none"

\* status_e::is_operating
is_operating(st) == st = START_NEW_OP \/ st = OP_IN_PROGRESS

\* ------------------------------------------------------------------ op lifecycle
\* the phase of one category inside op_bitmasks::value
IDLE      == "idle"
REQUESTED == "requested"
ACCEPTED  == "accepted"
COMPLETED == "completed"
DISABLED_OP == "disabled"

\* op_bitmasks::is_any(op_category_e): any of the three phase bits is set
is_any(a, cat) == a[cat] \in {REQUESTED, ACCEPTED, COMPLETED}
is_requested(a, cat) == a[cat] = REQUESTED
is_accepted(a, cat) == a[cat] = ACCEPTED
is_complete(a, cat) == a[cat] = COMPLETED
\* used by the dispatcher, not defined in cpptxrx_op_backend.h
is_disabled(a, cat) == a[cat] = DISABLED_OP

\* op_bitmasks::ANY_REQUEST / ANY_DESTROY / ANY_OPEN_OR_CLOSE
ANY_REQUEST(a) == \E cat \in {OPEN, CLOSE, SEND, RECEIVE, DESTROY} : is_requested(a, cat)
ANY_DESTROY(a) == is_any(a, DESTROY)
ANY_OPEN_OR_CLOSE(a) == is_any(a, OPEN) \/ is_any(a, CLOSE)
\* used by the dispatcher, not defined in cpptxrx_op_backend.h
DESTROY_ACCEPT_OR_COMPLETED(a) == is_accepted(a, DESTROY) \/ is_complete(a, DESTROY)

start_request(a, cat) == [a EXCEPT ![cat] = REQUESTED]
accept_request(a, cat) == [a EXCEPT ![cat] = ACCEPTED]
complete_request(a, cat) == [a EXCEPT ![cat] = COMPLETED]
end_request(a, cat) == [a EXCEPT ![cat] = IDLE]
\* used by the dispatcher, not defined in cpptxrx_op_backend.h
disable_op(a, cat) == [a EXCEPT ![cat] = DISABLED_OP]
enable_op(a, cat) == IF a[cat] = DISABLED_OP THEN [a EXCEPT ![cat] = IDLE] ELSE a

\* ------------------------------------------------------------------ op records
\* who owns an op record a pointer slot refers to
NULL    == "nullptr"
CB_OP   == "rx_callback.op_data"
AUTO_OP == "m_open_op"
Owners  == Callers \cup {CB_OP, AUTO_OP}

\* deadlines a caller may pass: one that expires inside the run, one that never does
Deadlines == {0, MaxTime + 1}
\* time_point::max(), the deadline of the callback's receive record
TimeMax == MaxTime + 2

\* common_opts, as far as the dispatcher reads them: the update type of the
\* receive callback and of the auto-reopen interval
UseExisting == "USE_EXISTING"
DefaultCommonOpts == [cb |-> UseExisting, auto |-> UseExisting]
CommonOptsArgs ==
    { [cb |-> "install", auto |-> UseExisting],
      [cb |-> "remove",  auto |-> UseExisting],
      [cb |-> "invalid", auto |-> UseExisting],    \* a callback whose is_valid() is false
      [cb |-> UseExisting, auto |-> "enable"] }

\* an open_config with std::chrono::nanoseconds(-1) as the auto-reopen interval
AutoReopenOff == [cb |-> UseExisting, auto |-> "disable"]

\* the argument lists of a public call
\* a null p_common_opts_open_args
NullCommonOpts == [cb |-> NULL, auto |-> NULL]
\* resolve_open_timeout with no timeout given: the default open timeout, which is
\* longer than the time span looked at
OpenDeadline == MaxTime + 1
OpenCalls ==
    \* reopen(settings) and reopen(settings, open_config)
    { [cat |-> OPEN, reopen |-> TRUE, has_opts |-> TRUE, copts |-> co, end_time |-> OpenDeadline] :
        co \in CommonOptsArgs \cup {NullCommonOpts} }
    \cup
    \* reopen(settings, open_config) whose open_config turns auto-reopen off and
    \* carries an open timeout that expires inside the time span looked at
    { [cat |-> OPEN, reopen |-> TRUE, has_opts |-> TRUE, copts |-> AutoReopenOff, end_time |-> 0] }
    \cup
    \* open() and open(settings)
    { [cat |-> OPEN, reopen |-> FALSE, has_opts |-> h, copts |-> NullCommonOpts,
       end_time |-> OpenDeadline] : h \in BOOLEAN }
IoCalls ==
    { [cat |-> k, reopen |-> FALSE, has_opts |-> FALSE, copts |-> NullCommonOpts, end_time |-> d] :
        k \in {SEND, RECEIVE}, d \in Deadlines }
    \cup
    { [cat |-> CLOSE, reopen |-> FALSE, has_opts |-> FALSE, copts |-> NullCommonOpts,
       end_time |-> d] : d \in Deadlines }
DestroyCall == [cat |-> DESTROY, reopen |-> FALSE, has_opts |-> FALSE, copts |-> NullCommonOpts, end_time |-> TimeMax]
NoCall == [cat |-> "none", reopen |-> FALSE, has_opts |-> FALSE, copts |-> NullCommonOpts, end_time |-> 0]

FreshOp(d) == [status |-> START_NEW_OP, end_time |-> d]

\* what is remembered about a call in progress:
\*   late       - the call was made after a destroy() had returned
\*   at_request - the call was pending when destroy was requested
\*   at_accept  - the call was pending when the management thread accepted the destroy
\*   at_close   - the call's send or receive op, with a deadline that is never reached,
\*                was installed when the management thread accepted a close, and the
\*                close hook has not failed
NoHist == [late |-> FALSE, at_request |-> FALSE, at_accept |-> FALSE, at_close |-> FALSE]

VARIABLES
    now,                     \* std::chrono::steady_clock::now()
    pc,                      \* where each user thread is inside its public call
    call,                    \* the arguments of each user thread's current (or last) call
    ncalls,                  \* public calls issued so far
    returned,                \* category and status of the public call that returned last
    hist,                    \* per user thread: what its current call has been through
    closed_ok,               \* a close() has returned SUCCESS and no open has ended with SUCCESS since
    op,                      \* the op records: status and end_time, per owner
    active_ops,              \* op_bitmasks value: phase per category
    ext_p,                   \* ext_p_open_op / ext_p_close_op / ext_p_send_op / ext_p_recv_op
    tp,                      \* transactions.p_open_op / p_close_op / p_send_op / p_recv_op
    m_open_status,
    m_open_opts_initialized,
    m_common_open_opts,
    p_rx_callback,           \* TRUE when a receive callback is installed
    auto_reopen_after,       \* TRUE when the interval is >= 0
    allow_auto_reopening,
    mpc,                     \* where the management thread is
    destruct_count,          \* how often destruct() has run
    destroy_returned,        \* some destroy() call has returned
    hook_after_destroy,      \* a hook or callback was invoked after a destroy() returned
    last_hook,               \* the process_* hook called in the current single_operation
    p_filter,                \* the filters of the chain installed in a filter_processor
    is_sending,              \* the processor is filter_processor<true>
    flt,                     \* the chain: byte arrays, filter members, best storages, mid, results
    input_data,              \* filter_processor::input_data
    output_data,             \* filter_processor::output_data
    result,                  \* filter_processor::result
    filter_ext_op,           \* the external op given to the processor (*ext_p_send_op, *ext_p_recv_op)
    filter_int_op,           \* op_specific_data.op_data when p_send_op / p_recv_op points to it
    fed,                     \* the messages given to the chain since the processor was last reset
    delivered,               \* the messages the chain has handed on since then
    last_end,                \* how the external op that ended last ended
    fcount,                  \* calls made and messages delivered so far
    open_cfg,                \* the common options of the opens made and what they have installed
    open_args                \* m_open_opts, the holder of m_open_opts_mutex and the threads at it

dvars == << now, pc, call, ncalls, returned, hist, closed_ok, op, active_ops, ext_p, tp, m_open_status,
           m_open_opts_initialized, m_common_open_opts, p_rx_callback, auto_reopen_after,
           allow_auto_reopening, mpc, destruct_count, destroy_returned, hook_after_destroy,
           last_hook >>

\* the members of a filter_processor and of the chain in it
fvars == << p_filter, is_sending, flt, input_data, output_data, result, filter_ext_op,
            filter_int_op, fed, delivered, last_end, fcount >>

\* the stored common options and open arguments on their own
ovars == << open_cfg, open_args >>

vars == << dvars, fvars, ovars >>

\* no open with common options has been made and nobody is at the open arguments
NoOpenArgs ==
    /\ open_cfg = << >>
    /\ open_args = << >>

\* no filter is installed: process_sending_filter and process_receiving_filter
\* return at once (p_filter == nullptr)
NoFilter ==
    /\ p_filter = << >>
    /\ is_sending = FALSE
    /\ flt = << >>
    /\ input_data = << >>
    /\ output_data = << >>
    /\ result = "CONTINUE"
    /\ filter_ext_op = << >>
    /\ filter_int_op = << >>
    /\ fed = << >>
    /\ delivered = << >>
    /\ last_end = << >>
    /\ fcount = << >>

\* the state right after the constructor of threadsafe_factory has returned
DispatcherInit ==
    /\ now = 0
    /\ pc = [c \in Callers |-> "idle"]
    /\ call = [c \in Callers |-> NoCall]
    /\ ncalls = 0
    /\ returned = [cat |-> "none", status |-> NoResult, hist |-> NoHist]
    /\ hist = [c \in Callers |-> NoHist]
    /\ closed_ok = FALSE
    /\ op = [o \in Owners |-> IF o = CB_OP THEN FreshOp(TimeMax) ELSE FreshOp(0)]
    /\ active_ops = [cat \in op_category_e |-> IDLE]
    /\ ext_p = [cat \in OpCats |-> NULL]
    /\ tp = [cat \in OpCats |-> NULL]
    /\ m_open_status = NOT_OPEN
    /\ m_open_opts_initialized = FALSE
    /\ m_common_open_opts = DefaultCommonOpts
    /\ p_rx_callback = FALSE
    /\ auto_reopen_after = FALSE
    /\ allow_auto_reopening = FALSE
    /\ mpc = "thread_start"
    /\ destruct_count = 0
    /\ destroy_returned = FALSE
    /\ hook_after_destroy = FALSE
    /\ last_hook = "none"

\* the state right after the constructor of threadsafe_factory has returned, with no
\* filter in the open options
Init == DispatcherInit /\ NoFilter /\ NoOpenArgs


\* ------------------------------------------------------------------ helpers
constructed == is_complete(active_ops, CONSTRUCT)

\* a hook or the receive callback is being invoked by this step
HookInvoked == hook_after_destroy' = (hook_after_destroy \/ destroy_returned)

\* the common_opts an installed open op carries: ext_p_open_common_opts
\* (&m_common_open_opts when the caller passed none, and for a synthetic open)
ext_p_open_common_opts(e) ==
    IF e[OPEN] \in Callers /\ call[e[OPEN]].copts # NullCommonOpts
    THEN call[e[OPEN]].copts
    ELSE m_common_open_opts

\* ------------------------------------------------------------------ public calls
\* user threads are interchangeable: a new call is given to the first idle one
CallerOrder == << "A", "B" >>
FirstIdle ==
    LET idle == { i \in 1..Len(CallerOrder) : pc[CallerOrder[i]] = "idle" }
    IN  CallerOrder[CHOOSE i \in idle : \A j \in idle : i <= j]

\* hist once thread c has entered its call
Started(c) == [hist EXCEPT ![c].late = IF pc[c] = "idle" THEN destroy_returned ELSE @]

\* the public call of thread c returns status st: its op record and arguments go
\* out of scope
Return(c, cat, st) ==
    /\ pc' = [pc EXCEPT ![c] = "idle"]
    /\ call' = [call EXCEPT ![c] = NoCall]
    /\ op' = [op EXCEPT ![c] = FreshOp(0)]
    /\ returned' = [cat |-> cat, status |-> st, hist |-> Started(c)[c]]
    /\ hist' = [hist EXCEPT ![c] = NoHist]
    /\ closed_ok' = (closed_ok \/ (cat = CLOSE /\ st = SUCCESS))

\* safe_wake_process without the look at the destroy-completed bit
WakeAllowed_Always(a) == TRUE

\* whether safe_wake_process calls wake_process()
WakeAllowed(a) == ~is_complete(a, DESTROY)

\* the front door predicate without the look at the open status
FrontDoorPred_NoOpenCheck(a, st, cat) ==
    IF ANY_DESTROY(a) \/ is_disabled(a, cat) THEN TRUE
    ELSE IF ANY_OPEN_OR_CLOSE(a) THEN FALSE
    ELSE ~is_any(a, cat)

\* the predicate of the front door's cv.wait_until in transact_operation
FrontDoorPred(a, st, cat) ==
    IF ANY_DESTROY(a) \/ is_disabled(a, cat) THEN TRUE
    ELSE IF st # SUCCESS /\ cat \in {RECEIVE, SEND, CLOSE} THEN TRUE
    ELSE IF ANY_OPEN_OR_CLOSE(a) THEN FALSE
    ELSE ~is_any(a, cat)

\* the front door with the destroy check after the other checks
FrontDoorReject_DestroyLast(a, st, args) ==
    IF is_disabled(a, args.cat) THEN DISABLED
    ELSE IF args.cat \in {RECEIVE, SEND, CLOSE} /\ st # SUCCESS THEN NOT_OPEN
    ELSE IF ANY_DESTROY(a) THEN CANCELED_IN_DESTROY
    ELSE NULL

\* the status transact_operation returns without installing the op, or NULL when
\* the op is to be installed
FrontDoorReject(a, st, args) ==
    IF ANY_DESTROY(a) THEN CANCELED_IN_DESTROY
    ELSE IF is_disabled(a, args.cat) THEN DISABLED
    ELSE IF args.cat \in {RECEIVE, SEND, CLOSE}
    THEN (IF st # SUCCESS THEN NOT_OPEN ELSE NULL)
    ELSE IF ~args.reopen /\ st = SUCCESS THEN FAILED_ALREADY_OPEN
    ELSE IF ~args.has_opts /\ ~m_open_opts_initialized THEN NO_PRIOR_OPEN_ARGS
    ELSE IF args.copts # NullCommonOpts /\ args.copts.cb = "invalid" THEN INVALID_ARG_RECV_CALLBACK_FUNC
    ELSE NULL

\* transact_operation, first locked block, for thread c with arguments args:
\* wait for a slot, then time out, reject, or install the op and start the request
transact_front(c, args) ==
    LET cat == args.cat
        ok  == FrontDoorPred(active_ops, m_open_status, cat)
        rej == FrontDoorReject(active_ops, m_open_status, args)
    IN  IF ~ok /\ now < args.end_time
        THEN \* blocked in wait_until
             /\ pc[c] = "idle"
             /\ pc' = [pc EXCEPT ![c] = "front"]
             /\ call' = [call EXCEPT ![c] = args]
             /\ hist' = Started(c)
             /\ UNCHANGED << op, returned, closed_ok, active_ops, ext_p, m_open_status,
                             hook_after_destroy >>
        ELSE IF ~ok
        THEN \* wait_until ran into end_time with the predicate still false
             /\ Return(c, cat, TIMED_OUT)
             /\ UNCHANGED << active_ops, ext_p, m_open_status, hook_after_destroy >>
        ELSE IF rej # NULL
        THEN /\ Return(c, cat, rej)
             /\ m_open_status' = IF rej = INVALID_ARG_RECV_CALLBACK_FUNC THEN rej ELSE m_open_status
             /\ UNCHANGED << active_ops, ext_p, hook_after_destroy >>
        ELSE /\ ext_p' = [ext_p EXCEPT ![cat] = c]
             /\ call' = [call EXCEPT ![c] = args]
             /\ op' = [op EXCEPT ![c] = FreshOp(args.end_time)]
             /\ active_ops' = start_request(active_ops, cat)
             \* safe_wake_process: wake_process() at once when already constructed
             /\ IF constructed
                THEN /\ pc' = [pc EXCEPT ![c] = "wait"]
                     /\ IF WakeAllowed(active_ops') THEN HookInvoked ELSE UNCHANGED hook_after_destroy
                ELSE pc' = [pc EXCEPT ![c] = "wake"] /\ UNCHANGED hook_after_destroy
             /\ hist' = Started(c)
             /\ UNCHANGED << returned, closed_ok, m_open_status >>

\* thread d is inside open/reopen/close/send/receive, blocked at the front door or
\* with its op installed and not yet marked completed
Pending(d) ==
    \/ pc[d] = "front"
    \/ pc[d] \in {"wake", "wait"} /\ ~is_complete(active_ops, call[d].cat)

\* destroy() that requests the destruction even when one is in flight or done
destroy_front_AlwaysRequest(c) ==
    /\ call' = [call EXCEPT ![c] = DestroyCall]
    /\ active_ops' = start_request(active_ops, DESTROY)
    /\ hist' = Started(c)
    /\ IF constructed
       THEN /\ pc' = [pc EXCEPT ![c] = "destroy_wait"]
            /\ IF WakeAllowed(active_ops') THEN HookInvoked ELSE UNCHANGED hook_after_destroy
       ELSE pc' = [pc EXCEPT ![c] = "destroy_wake"] /\ UNCHANGED hook_after_destroy
    /\ UNCHANGED << op, returned, closed_ok, ext_p, m_open_status >>

\* destroy(), first locked block
destroy_front(c) ==
    /\ call' = [call EXCEPT ![c] = DestroyCall]
    /\ IF ANY_DESTROY(active_ops)
       THEN /\ pc' = [pc EXCEPT ![c] = "destroy_wait"]
            /\ hist' = Started(c)
            /\ UNCHANGED << active_ops, hook_after_destroy >>
       ELSE /\ active_ops' = start_request(active_ops, DESTROY)
            /\ hist' = [d \in Callers |->
                          IF d # c /\ Pending(d) THEN [hist[d] EXCEPT !.at_request = TRUE]
                          ELSE Started(c)[d]]
            /\ IF constructed
               THEN /\ pc' = [pc EXCEPT ![c] = "destroy_wait"]
                    /\ IF WakeAllowed(active_ops') THEN HookInvoked ELSE UNCHANGED hook_after_destroy
               ELSE pc' = [pc EXCEPT ![c] = "destroy_wake"] /\ UNCHANGED hook_after_destroy
    /\ UNCHANGED << op, returned, closed_ok, ext_p, m_open_status >>

\* a user thread calls open/reopen/close/send/receive/destroy and runs the first
\* locked block of the call
Call(c, args) ==
    /\ pc[c] = "idle"
    /\ c = FirstIdle
    /\ ncalls < MaxCalls
    /\ ncalls' = ncalls + 1
    /\ IF args.cat = DESTROY THEN destroy_front(c) ELSE transact_front(c, args)
    /\ UNCHANGED << now, tp, m_open_opts_initialized, m_common_open_opts, p_rx_callback,
                    auto_reopen_after, allow_auto_reopening, mpc, destruct_count,
                    destroy_returned, last_hook >>
    /\ UNCHANGED << fvars, ovars >>

\* a thread blocked at the front door is woken: the predicate holds or end_time is reached
FrontDoor(c) ==
    /\ pc[c] = "front"
    /\ FrontDoorPred(active_ops, m_open_status, call[c].cat) \/ now >= call[c].end_time
    /\ transact_front(c, call[c])
    /\ UNCHANGED << now, ncalls, tp, m_open_opts_initialized, m_common_open_opts, p_rx_callback,
                    auto_reopen_after, allow_auto_reopening, mpc, destruct_count,
                    destroy_returned, last_hook >>
    /\ UNCHANGED << fvars, ovars >>

\* safe_wake_process after wait_for_constructed had to wait
WaitConstructed(c) ==
    /\ pc[c] \in {"wake", "destroy_wake"}
    /\ constructed
    /\ pc' = [pc EXCEPT ![c] = IF pc[c] = "wake" THEN "wait" ELSE "destroy_wait"]
    /\ IF WakeAllowed(active_ops) THEN HookInvoked ELSE UNCHANGED hook_after_destroy
    /\ UNCHANGED << now, call, ncalls, returned, hist, closed_ok, op, active_ops, ext_p, tp, m_open_status,
                    m_open_opts_initialized, m_common_open_opts, p_rx_callback,
                    auto_reopen_after, allow_auto_reopening, mpc, destruct_count,
                    destroy_returned, last_hook >>
    /\ UNCHANGED << fvars, ovars >>

\* the completion wait without the destroy clause
CompletionPred_NoDestroy(a, cat) == is_complete(a, cat)

\* the predicate of the completion wait of transact_operation
CompletionPred(a, cat) == DESTROY_ACCEPT_OR_COMPLETED(a) \/ is_complete(a, cat)

\* transact_operation, last locked block, and the return of the public call
Completion(c) ==
    /\ pc[c] = "wait"
    /\ CompletionPred(active_ops, call[c].cat)
    /\ IF ~is_complete(active_ops, call[c].cat)
       THEN /\ Return(c, call[c].cat, CANCELED_IN_DESTROY)
            /\ UNCHANGED active_ops
       ELSE /\ active_ops' = end_request(active_ops, call[c].cat)
            /\ Return(c, call[c].cat, op[c].status)
    /\ UNCHANGED << now, ncalls, ext_p, tp, m_open_status, m_open_opts_initialized,
                    m_common_open_opts, p_rx_callback, auto_reopen_after, allow_auto_reopening,
                    mpc, destruct_count, destroy_returned, hook_after_destroy, last_hook >>
    /\ UNCHANGED << fvars, ovars >>

\* destroy(): the wait for the destroy-completed bit, and the return
DestroyWait(c) ==
    /\ pc[c] = "destroy_wait"
    /\ is_complete(active_ops, DESTROY)
    /\ Return(c, DESTROY, "void")
    /\ destroy_returned' = TRUE
    /\ UNCHANGED << now, ncalls, active_ops, ext_p, tp, m_open_status,
                    m_open_opts_initialized, m_common_open_opts, p_rx_callback,
                    auto_reopen_after, allow_auto_reopening, mpc, destruct_count,
                    hook_after_destroy, last_hook >>
    /\ UNCHANGED << fvars, ovars >>

\* the steady clock advances
Tick ==
    /\ now < MaxTime
    /\ now' = now + 1
    /\ UNCHANGED << pc, call, ncalls, returned, hist, closed_ok, op, active_ops, ext_p, tp, m_open_status,
                    m_open_opts_initialized, m_common_open_opts, p_rx_callback,
                    auto_reopen_after, allow_auto_reopening, mpc, destruct_count,
                    destroy_returned, hook_after_destroy, last_hook >>
    /\ UNCHANGED << fvars, ovars >>


\* ------------------------------------------------------------------ management thread
\* the thread body up to construct(): wait for the first request, then construct
ThreadStart ==
    /\ mpc = "thread_start"
    /\ ANY_REQUEST(active_ops)
    /\ mpc' = "mark_as_constructed"
    /\ HookInvoked
    /\ UNCHANGED << now, pc, call, ncalls, returned, hist, closed_ok, op, active_ops, ext_p, tp, m_open_status,
                    m_open_opts_initialized, m_common_open_opts, p_rx_callback,
                    auto_reopen_after, allow_auto_reopening, destruct_count, destroy_returned, last_hook >>
    /\ UNCHANGED << fvars, ovars >>

mark_as_constructed ==
    /\ mpc = "mark_as_constructed"
    /\ active_ops' = complete_request(active_ops, CONSTRUCT)
    /\ mpc' = "top"
    /\ UNCHANGED << now, pc, call, ncalls, returned, hist, closed_ok, op, ext_p, tp, m_open_status,
                    m_open_opts_initialized, m_common_open_opts, p_rx_callback,
                    auto_reopen_after, allow_auto_reopening, destruct_count, destroy_returned,
                    hook_after_destroy, last_hook >>
    /\ UNCHANGED << fvars, ovars >>

\* check_and_process_destruction_in_single_op, when it returns true
AcceptDestroy ==
    /\ active_ops' = accept_request(active_ops, DESTROY)
    /\ m_open_status' = NOT_OPEN
    /\ mpc' = "destruct"
    /\ hist' = [d \in Callers |->
                  IF Pending(d) THEN [hist[d] EXCEPT !.at_accept = TRUE] ELSE hist[d]]
    /\ UNCHANGED << now, pc, call, ncalls, returned, closed_ok, op, ext_p, tp, m_open_opts_initialized,
                    m_common_open_opts, p_rx_callback, auto_reopen_after, allow_auto_reopening,
                    destruct_count, destroy_returned, hook_after_destroy >>

\* the phases after the requests have been accepted (single_operation, the block
\* "if (active_ops.is_any(ANY_REQUEST))")
AcceptedOps(a) ==
    [cat \in op_category_e |->
        IF cat \in OpCats /\ is_requested(a, cat) THEN ACCEPTED ELSE a[cat]]

\* single_operation from the filter managers to the end of the locked block, with no
\* filter installed: hand the external op pointers to the transport and accept the
\* requests.  e, a, o: the external pointers, phases and op records at this point
SwapAndAccept(e, a, o) ==
    /\ ext_p' = e
    /\ tp' = e
    /\ active_ops' = AcceptedOps(a)
    /\ allow_auto_reopening' =
          IF is_requested(a, OPEN) THEN TRUE
          ELSE IF is_requested(a, CLOSE) THEN FALSE
          ELSE allow_auto_reopening
    /\ m_open_opts_initialized' = (m_open_opts_initialized \/ is_requested(a, OPEN))
    /\ m_common_open_opts' =
          IF is_requested(a, OPEN) /\ e[OPEN] # NULL
          THEN ext_p_open_common_opts(e) ELSE m_common_open_opts
    /\ op' = IF is_requested(a, OPEN) /\ e[OPEN] \in Callers
             THEN [o EXCEPT ![AUTO_OP] = o[e[OPEN]]] ELSE o
    /\ mpc' = "hook"
    /\ hist' = [d \in Callers |->
                  IF /\ is_requested(a, CLOSE)
                     /\ d \in {e[SEND], e[RECEIVE]}
                     /\ o[d].end_time > MaxTime
                  THEN [hist[d] EXCEPT !.at_close = TRUE] ELSE hist[d]]
    /\ UNCHANGED << now, pc, call, ncalls, returned, closed_ok, m_open_status, p_rx_callback,
                    auto_reopen_after, destruct_count, destroy_returned, hook_after_destroy >>

\* whether the management thread retries the open by itself
AutoReopenDue ==
    /\ allow_auto_reopening
    /\ m_open_status # SUCCESS
    /\ m_open_opts_initialized
    /\ auto_reopen_after

\* the callback driver re-arms the callback's receive record
Rearm(e) ==
    IF p_rx_callback /\ e[RECEIVE] = NULL /\ e[CLOSE] = NULL /\ e[OPEN] = NULL
       /\ m_open_status = SUCCESS
    THEN [e EXCEPT ![RECEIVE] = CB_OP] ELSE e

no_active_transactions(e) == \A cat \in OpCats : e[cat] = NULL

\* single_operation from the re-arming of the callback receive on; o: the op records
RearmAndWait(o) ==
    LET e == Rearm(ext_p) IN
    IF no_active_transactions(e) /\ ~ANY_REQUEST(active_ops)
    THEN \* one of the two cv waits releases the mutex
         /\ mpc' = IF AutoReopenDue THEN "wait_auto" ELSE "wait_request"
         /\ op' = o
         /\ UNCHANGED << now, pc, call, ncalls, returned, hist, closed_ok, active_ops, ext_p, tp, m_open_status,
                         m_open_opts_initialized, m_common_open_opts, p_rx_callback,
                         auto_reopen_after, allow_auto_reopening, destruct_count,
                         destroy_returned, hook_after_destroy >>
    ELSE SwapAndAccept(e, active_ops, o)

\* a callback driver that does not look at the status of the callback's record
CallbackDue_AnyStatus ==
    /\ p_rx_callback
    /\ ext_p[RECEIVE] = NULL

\* the callback's record is complete and the callback is to be told
CallbackDue ==
    /\ p_rx_callback
    /\ ext_p[RECEIVE] = NULL
    /\ ~is_operating(op[CB_OP].status)

\* receive_callback::abstract::reset_all
reset_all(o) == [o EXCEPT ![CB_OP] = FreshOp(TimeMax)]

\* single_operation from its start
Top ==
    /\ mpc = "top"
    /\ IF is_requested(active_ops, DESTROY) THEN AcceptDestroy
       ELSE IF CallbackDue /\ op[CB_OP].status # NOT_OPEN
       THEN \* the callback runs outside of the mutex
            /\ mpc' = "callback"
            /\ HookInvoked
            /\ UNCHANGED << now, pc, call, ncalls, returned, hist, closed_ok, op, active_ops, ext_p, tp,
                            m_open_status, m_open_opts_initialized, m_common_open_opts,
                            p_rx_callback, auto_reopen_after, allow_auto_reopening,
                            destruct_count, destroy_returned >>
       ELSE RearmAndWait(IF CallbackDue THEN reset_all(op) ELSE op)
    /\ UNCHANGED last_hook
    /\ UNCHANGED << fvars, ovars >>

\* single_operation after the callback has returned
CallbackReturn ==
    /\ mpc = "callback"
    /\ IF is_requested(active_ops, DESTROY) THEN AcceptDestroy
       ELSE RearmAndWait(reset_all(op))
    /\ UNCHANGED last_hook
    /\ UNCHANGED << fvars, ovars >>

\* the deadline of a synthetic open: now plus the default open timeout
SyntheticOpenDeadline == MaxTime + 1

\* single_operation after the wait for the auto-reopen interval
WaitAuto ==
    /\ mpc = "wait_auto"
    /\ IF is_requested(active_ops, DESTROY) THEN AcceptDestroy
       ELSE IF ~ANY_REQUEST(active_ops)
       THEN \* the interval has passed: request a reopen with the last opts
            SwapAndAccept([ext_p EXCEPT ![OPEN] = AUTO_OP],
                          start_request(active_ops, OPEN),
                          [op EXCEPT ![AUTO_OP] = FreshOp(SyntheticOpenDeadline)])
       ELSE SwapAndAccept(ext_p, active_ops, op)
    /\ UNCHANGED last_hook
    /\ UNCHANGED << fvars, ovars >>

\* single_operation after the wait for a new request
WaitRequest ==
    /\ mpc = "wait_request"
    /\ ANY_REQUEST(active_ops)
    /\ IF is_requested(active_ops, DESTROY) THEN AcceptDestroy
       ELSE SwapAndAccept(ext_p, active_ops, op)
    /\ UNCHANGED last_hook
    /\ UNCHANGED << fvars, ovars >>


\* ------------------------------------------------------------------ transport hooks
KEEP == "keep"

\* flip_status_from_started_to_in_progress
flip_status_from_started_to_in_progress(st) ==
    IF st = START_NEW_OP THEN OP_IN_PROGRESS ELSE st

\* the op status a hook leaves: the outcome it chose, or the flipped status
AfterHook(st, outcome) ==
    IF outcome = KEEP THEN flip_status_from_started_to_in_progress(st) ELSE outcome

\* the order in which single_operation ends the transactions
EndOrder == << SEND, RECEIVE, OPEN, CLOSE >>
EndPc(cat) == CASE cat = SEND    -> "end_send"
                [] cat = RECEIVE -> "end_receive"
                [] cat = OPEN    -> "end_open"
                [] cat = CLOSE   -> "end_close"

\* the next end_transaction call that has an op record to look at, after the i-th
NextEnd(t, i) ==
    LET rest == { j \in (i + 1)..4 : t[EndOrder[j]] # NULL } IN
    IF rest = {} THEN "top"
    ELSE EndPc(EndOrder[CHOOSE j \in rest : \A k \in rest : j <= k])

\* what process_close may do: end the close op, and change the open status
\* (default_udp_raw.h close_socket; the demo transports only end the op)
CloseOutcomes ==
    { [o |-> SUCCESS, st |-> NOT_OPEN], [o |-> SUCCESS, st |-> KEEP],
      [o |-> ERROR_CODE, st |-> ERROR_CODE], [o |-> KEEP, st |-> KEEP] }

ProcessClose ==
    /\ mpc = "hook"
    /\ tp[CLOSE] # NULL
    /\ \E out \in CloseOutcomes :
          /\ op' = [op EXCEPT ![tp[CLOSE]].status = AfterHook(@, out.o)]
          /\ m_open_status' = IF out.st = KEEP THEN m_open_status ELSE out.st
          /\ hist' = IF out.o = ERROR_CODE
                      THEN [d \in Callers |-> [hist[d] EXCEPT !.at_close = FALSE]]
                      ELSE hist
    /\ mpc' = NextEnd(tp, 0)
    /\ HookInvoked
    /\ last_hook' = "process_close"
    /\ UNCHANGED << now, pc, call, ncalls, returned, closed_ok, active_ops, ext_p, tp,
                    m_open_opts_initialized, m_common_open_opts, p_rx_callback,
                    auto_reopen_after, allow_auto_reopening, destruct_count, destroy_returned >>
    /\ UNCHANGED << fvars, ovars >>

\* what process_open may do: close the old connection first or not, and end the
\* open op with success or an error, or keep working on it
OpenOutcomes ==
    { [o |-> x, st |-> y] : x \in {SUCCESS, ERROR_CODE, KEEP}, y \in {KEEP, NOT_OPEN} }

ProcessOpen ==
    /\ mpc = "hook"
    /\ tp[CLOSE] = NULL
    /\ tp[OPEN] # NULL
    /\ \E out \in OpenOutcomes :
          /\ op' = [op EXCEPT ![tp[OPEN]].status = AfterHook(@, out.o)]
          /\ m_open_status' = IF out.st = KEEP THEN m_open_status ELSE out.st
    /\ mpc' = NextEnd(tp, 0)
    /\ HookInvoked
    /\ last_hook' = "process_open"
    /\ UNCHANGED << now, pc, call, ncalls, returned, hist, closed_ok, active_ops, ext_p, tp,
                    m_open_opts_initialized, m_common_open_opts, p_rx_callback,
                    auto_reopen_after, allow_auto_reopening, destruct_count, destroy_returned >>
    /\ UNCHANGED << fvars, ovars >>

\* what process_send_receive may do with a pending op: end it or keep working;
\* and it may find the connection lost and record that in the open status
IoOutcomes == {SUCCESS, ERROR_CODE, KEEP}

\* process_send_receive called ahead of a pending open
ProcessSendReceive_BeforeOpen ==
    /\ mpc = "hook"
    /\ tp[CLOSE] = NULL
    /\ tp[SEND] # NULL \/ tp[RECEIVE] # NULL
    /\ \E so \in IoOutcomes, ro \in IoOutcomes :
          /\ tp[SEND] = NULL => so = KEEP
          /\ tp[RECEIVE] = NULL => ro = KEEP
          /\ op' = [w \in Owners |->
                      IF w = tp[SEND] THEN [op[w] EXCEPT !.status = AfterHook(@, so)]
                      ELSE IF w = tp[RECEIVE] THEN [op[w] EXCEPT !.status = AfterHook(@, ro)]
                      ELSE op[w]]
    /\ mpc' = NextEnd(tp, 0)
    /\ HookInvoked
    /\ last_hook' = "process_send_receive"
    /\ UNCHANGED << now, pc, call, ncalls, returned, hist, closed_ok, active_ops, ext_p, tp,
                    m_open_status, m_open_opts_initialized, m_common_open_opts, p_rx_callback,
                    auto_reopen_after, allow_auto_reopening, destruct_count, destroy_returned >>
    /\ UNCHANGED << fvars, ovars >>

\* (the management thread gets here only with a request taken up, so one of the three
\* hooks is always called: the transports modelled do not idle in send/receive)
ProcessSendReceive ==
    /\ mpc = "hook"
    /\ tp[CLOSE] = NULL
    /\ tp[OPEN] = NULL
    /\ tp[SEND] # NULL \/ tp[RECEIVE] # NULL
    /\ \E so \in IoOutcomes, ro \in IoOutcomes, lost \in BOOLEAN :
          /\ tp[SEND] = NULL => so = KEEP
          /\ tp[RECEIVE] = NULL => ro = KEEP
          /\ op' = [w \in Owners |->
                      IF w = tp[SEND] THEN [op[w] EXCEPT !.status = AfterHook(@, so)]
                      ELSE IF w = tp[RECEIVE] THEN [op[w] EXCEPT !.status = AfterHook(@, ro)]
                      ELSE op[w]]
          /\ m_open_status' = IF lost THEN ERROR_CODE ELSE m_open_status
    /\ mpc' = NextEnd(tp, 0)
    /\ HookInvoked
    /\ last_hook' = "process_send_receive"
    /\ UNCHANGED << now, pc, call, ncalls, returned, hist, closed_ok, active_ops, ext_p, tp,
                    m_open_opts_initialized, m_common_open_opts, p_rx_callback,
                    auto_reopen_after, allow_auto_reopening, destruct_count, destroy_returned >>
    /\ UNCHANGED << fvars, ovars >>

\* ------------------------------------------------------------------ end_transaction
\* the status end_transaction gives an op that is still operating, or KEEP when the
\* op is to go on
EndStatus(cat, o) ==
    IF ~is_operating(o.status) THEN o.status
    ELSE IF o.end_time < now THEN TIMED_OUT
    ELSE IF m_open_status # SUCCESS /\ cat \in {SEND, RECEIVE, CLOSE} THEN NOT_OPEN
    ELSE KEEP

\* whether end_transaction marks the category complete
complete_operation(cat) == IF cat = RECEIVE THEN ~p_rx_callback ELSE TRUE

\* the auto-reopen interval in effect after an open has ended
NewAutoReopenAfter ==
    IF m_common_open_opts.auto = "enable" THEN TRUE
    ELSE IF m_common_open_opts.auto = "disable" THEN FALSE
    ELSE auto_reopen_after

\* an ended open that installs what it carried whatever its status
InstallsCommonOpts_Always(st) == TRUE

\* whether the ended open installs the callback (and filters) it carried
InstallsCommonOpts(st) == st = SUCCESS \/ NewAutoReopenAfter

\* the installed callback after an open has ended with status st
NewRxCallback(st) ==
    IF InstallsCommonOpts(st) /\ m_common_open_opts.cb = "install" THEN TRUE
    ELSE IF InstallsCommonOpts(st) /\ m_common_open_opts.cb \in {"remove", "invalid"} THEN FALSE
    ELSE p_rx_callback

\* the callback update of an ended open that leaves manual receives enabled
CallbackPhases_NoDisable(a, st) ==
    IF InstallsCommonOpts(st) /\ m_common_open_opts.cb \in {"remove", "invalid"}
    THEN enable_op(a, RECEIVE)
    ELSE a

\* the phases after the callback update of an ended open
CallbackPhases(a, st) ==
    IF InstallsCommonOpts(st) /\ m_common_open_opts.cb = "install" THEN disable_op(a, RECEIVE)
    ELSE IF InstallsCommonOpts(st) /\ m_common_open_opts.cb \in {"remove", "invalid"}
    THEN enable_op(a, RECEIVE)
    ELSE a

\* end_transaction that takes any ended close, a timed-out one too, as having closed
NewOpenStatus_AnyClose(cat, st) ==
    IF cat = OPEN THEN st
    ELSE IF cat = CLOSE /\ m_open_status = SUCCESS THEN NOT_OPEN
    ELSE m_open_status

\* end_transaction that leaves the open status to the close hook
NewOpenStatus_HookOnly(cat, st) == IF cat = OPEN THEN st ELSE m_open_status

\* the open status after the op of category cat has ended with status st
NewOpenStatus(cat, st) ==
    IF cat = OPEN THEN st
    ELSE IF cat = CLOSE /\ st = SUCCESS /\ m_open_status = SUCCESS THEN NOT_OPEN
    ELSE m_open_status

\* end_transaction(transactions.p_<cat>_op, cat) for a non-null op pointer
end_transaction(cat) ==
    /\ mpc = EndPc(cat)
    /\ LET w  == tp[cat]
           st == EndStatus(cat, op[w])
           i  == CHOOSE j \in 1..4 : EndOrder[j] = cat
       IN  IF st = KEEP
           THEN /\ mpc' = NextEnd(tp, i)
                /\ UNCHANGED << op, active_ops, ext_p, tp, m_open_status, p_rx_callback,
                                auto_reopen_after, closed_ok >>
           ELSE /\ op' = [op EXCEPT ![w].status = st]
                /\ tp' = [tp EXCEPT ![cat] = NULL]
                /\ ext_p' = [ext_p EXCEPT ![cat] = NULL]
                /\ p_rx_callback' = IF cat = OPEN THEN NewRxCallback(st) ELSE p_rx_callback
                /\ auto_reopen_after' = IF cat = OPEN THEN NewAutoReopenAfter ELSE auto_reopen_after
                /\ m_open_status' = NewOpenStatus(cat, st)
                /\ active_ops' =
                      LET a == IF cat = OPEN THEN CallbackPhases(active_ops, st) ELSE active_ops
                      IN  IF complete_operation(cat) THEN complete_request(a, cat) ELSE a
                /\ closed_ok' = (closed_ok /\ ~(cat = OPEN /\ st = SUCCESS))
                /\ mpc' = NextEnd(tp', i)
    /\ UNCHANGED << now, pc, call, ncalls, returned, hist, m_open_opts_initialized, m_common_open_opts,
                    allow_auto_reopening, destruct_count, destroy_returned, hook_after_destroy >>
    /\ last_hook' = IF mpc' = "top" THEN "none" ELSE last_hook
    /\ UNCHANGED << fvars, ovars >>

\* the thread body after the loop: destruct() and the destroy-completed bit
Destruct ==
    /\ mpc = "destruct"
    /\ destruct_count' = destruct_count + 1
    /\ active_ops' = complete_request(active_ops, DESTROY)
    /\ mpc' = "exited"
    /\ HookInvoked
    /\ UNCHANGED << now, pc, call, ncalls, returned, hist, closed_ok, op, ext_p, tp, m_open_status,
                    m_open_opts_initialized, m_common_open_opts, p_rx_callback,
                    auto_reopen_after, allow_auto_reopening, destroy_returned, last_hook >>
    /\ UNCHANGED << fvars, ovars >>

\* ------------------------------------------------------------------ specification
Next ==
    \/ \E c \in Callers, args \in OpenCalls \cup IoCalls \cup {DestroyCall} : Call(c, args)
    \/ \E c \in Callers : FrontDoor(c)
    \/ \E c \in Callers : WaitConstructed(c)
    \/ \E c \in Callers : Completion(c)
    \/ \E c \in Callers : DestroyWait(c)
    \/ ThreadStart
    \/ mark_as_constructed
    \/ Top
    \/ CallbackReturn
    \/ WaitAuto
    \/ WaitRequest
    \/ ProcessClose
    \/ ProcessOpen
    \/ ProcessSendReceive
    \/ \E cat \in OpCats : end_transaction(cat)
    \/ Destruct
    \/ Tick

Spec == Init /\ [][Next]_vars

\* the steps of the management thread
Management ==
    \/ ThreadStart
    \/ mark_as_constructed
    \/ Top
    \/ CallbackReturn
    \/ WaitAuto
    \/ WaitRequest
    \/ ProcessClose
    \/ ProcessOpen
    \/ ProcessSendReceive
    \/ \E cat \in OpCats : end_transaction(cat)
    \/ Destruct

\* the calls the progress properties are looked at with: reopen with a receive
\* callback, with a callback that is not valid and with an auto-reopen interval,
\* open(settings), receive with either deadline, close with a deadline that is never
\* reached, and destroy
FairCalls ==
    { a \in OpenCalls : a.copts \in { [cb |-> "install", auto |-> UseExisting],
                                       [cb |-> "invalid", auto |-> UseExisting],
                                       [cb |-> UseExisting, auto |-> "enable"] } }
    \cup { a \in OpenCalls : ~a.reopen /\ a.has_opts }
    \cup { a \in IoCalls : a.cat = RECEIVE \/ (a.cat = CLOSE /\ a.end_time # 0) }
    \cup { DestroyCall }

FairNext ==
    \/ \E c \in Callers, args \in FairCalls : Call(c, args)
    \/ \E c \in Callers : FrontDoor(c)
    \/ \E c \in Callers : WaitConstructed(c)
    \/ \E c \in Callers : Completion(c)
    \/ \E c \in Callers : DestroyWait(c)
    \/ ThreadStart
    \/ mark_as_constructed
    \/ Top
    \/ CallbackReturn
    \/ WaitAuto
    \/ WaitRequest
    \/ ProcessClose
    \/ ProcessOpen
    \/ ProcessSendReceive
    \/ \E cat \in OpCats : end_transaction(cat)
    \/ Destruct
    \/ Tick

\* the management thread keeps running, a waiting thread whose predicate stays true
\* gets the mutex, and the clock advances
FairSpec ==
    /\ Init
    /\ [][FairNext]_vars
    /\ WF_vars(Management)
    /\ WF_vars(Tick)
    /\ \A c \in Callers : /\ WF_vars(FrontDoor(c))
                          /\ WF_vars(WaitConstructed(c))
                          /\ WF_vars(Completion(c))
                          /\ WF_vars(DestroyWait(c))

\* ------------------------------------------------------------------ properties
\* the op records the dispatcher holds for a category: the external slot and the
\* slot the transport sees
InstalledOps(cat) == {ext_p[cat], tp[cat]} \ {NULL}

\* C1: at every instant at most one op record of each category (open, close, send,
\* receive) is installed with the dispatcher: a call installs its record only after
\* the previous record of that category has been completed and cleared, the records
\* of the callback driver and of auto-reopen included.
C1_AtMostOneOpPerCategory == \A cat \in OpCats : Cardinality(InstalledOps(cat)) <= 1


\* thread c is inside a send or receive call whose deadline has passed
PastDeadline(c) ==
    /\ pc[c] \in {"front", "wake", "wait"}
    /\ call[c].cat \in {SEND, RECEIVE}
    /\ now > call[c].end_time

\* C2: a send or receive call returns once its deadline has passed: no caller stays
\* blocked past its deadline, whatever opens, reopens (callback installs included),
\* closes and auto-reopens happen meanwhile.
C2_ReturnsByDeadline == \A c \in Callers : PastDeadline(c) ~> (pc[c] = "idle")

\* thread c has installed its op and has not returned yet
Installed(c) == pc[c] \in {"wake", "wait"}

\* C3: completion is delivered exactly once per call: a category is marked completed
\* only while a caller that installed an op of that category is waiting for it, and
\* the op of a waiting caller is either still held by the dispatcher or its
\* completion (or the destruction) is signalled.
C3_CompletionExactlyOnce ==
    /\ \A cat \in OpCats :
          is_complete(active_ops, cat) => \E c \in Callers : Installed(c) /\ call[c].cat = cat
    /\ \A c \in Callers :
          Installed(c) => \/ c \in InstalledOps(call[c].cat)
                          \/ is_complete(active_ops, call[c].cat)
                          \/ DESTROY_ACCEPT_OR_COMPLETED(active_ops)


\* C4 (as claimed): a send or receive that is pending, with its deadline not reached,
\* when a close is taken up on an open endpoint returns NOT_OPEN, for any transport
\* whose close hook ends the close op with SUCCESS (destruction aside).
C4_CloseCancelsPending ==
    (returned.hist.at_close /\ ~returned.hist.at_request /\ ~returned.hist.at_accept)
        => returned.status = NOT_OPEN

\* C5 (as claimed): every operation that is pending when destroy is requested returns
\* CANCELED_IN_DESTROY.
C5_PendingAtRequestCanceled ==
    returned.hist.at_request => returned.status = CANCELED_IN_DESTROY

\* C5 (amended): every operation that is still pending, blocked at the front door or
\* installed and not completed, when the management thread accepts the destroy request
\* returns CANCELED_IN_DESTROY, open and close included, and every such caller returns:
\* the completion wait of each of them is released from the acceptance on.
C5_PendingAtAcceptCanceled ==
    /\ [](returned.hist.at_accept => returned.status = CANCELED_IN_DESTROY)
    /\ [](\A c \in Callers : (hist[c].at_accept /\ pc[c] = "wait")
                                 => CompletionPred(active_ops, call[c].cat))
    /\ \A c \in Callers : hist[c].at_accept ~> (pc[c] = "idle")

C5_Witness ==
    /\ returned.hist.at_accept
    /\ returned.status = CANCELED_IN_DESTROY
    /\ returned.cat \in {OPEN, CLOSE}

\* C6: a call of open, reopen, close, send or receive made after a destroy has
\* returned returns CANCELED_IN_DESTROY, whatever the open status, the disabling of
\* its category and its deadline; its op is never installed and no hook runs for it.
C6_CanceledAfterDestroy ==
    /\ (returned.hist.late /\ returned.cat \in OpCats)
          => returned.status = CANCELED_IN_DESTROY
    /\ \A c \in Callers : (hist[c].late /\ call[c].cat \in OpCats) => pc[c] = "idle"
    /\ returned.hist.late => ~hook_after_destroy

C6_Witness ==
    /\ returned.hist.late
    /\ returned.cat = RECEIVE
    /\ returned.status = CANCELED_IN_DESTROY
    /\ is_disabled(active_ops, RECEIVE)

\* C7: however often and from whichever threads destroy is called, every destroy
\* call returns, and destruct() runs exactly once; the destroy-completed bit every
\* destroy call waits for stays set once the management thread has exited.
C7_DestroyIdempotent ==
    /\ \A c \in Callers : (pc[c] \in {"destroy_wake", "destroy_wait"}) ~> (pc[c] = "idle")
    /\ [](destruct_count <= 1)
    /\ [](destroy_returned => destruct_count = 1)
    /\ [](mpc = "exited" => is_complete(active_ops, DESTROY))

C7_Witness ==
    /\ returned.cat = DESTROY
    /\ returned.hist.late
    /\ destruct_count = 1

\* C8: once a destroy call has returned, no transport hook (construct, process_open,
\* process_close, process_send_receive, wake_process, destruct) and no receive
\* callback is invoked.
C8_NoHookAfterDestroy == ~hook_after_destroy

C8_Witness ==
    /\ destroy_returned
    /\ p_rx_callback
    /\ destruct_count = 1

\* C9: after a close call has returned SUCCESS, is_open() is false until an open or
\* reopen ends with SUCCESS.
C9_ClosedUntilOpened == closed_ok => m_open_status # SUCCESS

C9_Witness ==
    /\ closed_ok
    /\ returned.cat = CLOSE
    /\ returned.status = SUCCESS
    /\ m_open_status = NOT_OPEN

\* the endpoint is open again through an auto-reopen: the last synthetic open has
\* ended with SUCCESS, nothing else is in flight and no destruction is requested
ReopenedBySyntheticOpen ==
    /\ op[AUTO_OP].status = SUCCESS
    /\ m_open_status = SUCCESS
    /\ \A cat \in OpCats : ext_p[cat] = NULL /\ tp[cat] = NULL
    /\ \A c \in Callers : pc[c] = "idle"
    /\ ~ANY_DESTROY(active_ops)

\* C10: once a synthetic open has ended with SUCCESS, a send or close call is
\* admitted by the front door: it neither blocks nor is rejected.
C10_AdmittedAfterAutoReopen ==
    ReopenedBySyntheticOpen =>
        \A cat \in {SEND, CLOSE} :
            /\ FrontDoorPred(active_ops, m_open_status, cat)
            /\ FrontDoorReject(active_ops, m_open_status,
                               [cat |-> cat, reopen |-> FALSE, has_opts |-> FALSE,
                                copts |-> NullCommonOpts, end_time |-> MaxTime + 1]) = NULL

\* the call that returned last is a close, and no thread is inside open or reopen:
\* the user has called close and has not called open or reopen since
UserClosedLast ==
    /\ returned.cat = CLOSE
    /\ \A c \in Callers : call[c].cat # OPEN

\* the management thread hands a synthetic open to the transport in this step
SynthesisesOpen == tp[OPEN] # AUTO_OP /\ tp'[OPEN] = AUTO_OP

\* C11: once the user has called close, whatever the endpoint's state was at that
\* moment, the management thread synthesises no open until the user calls open or
\* reopen again.
C11_NoSyntheticOpenAfterClose == [][UserClosedLast => ~SynthesisesOpen]_vars

\* auto-reopen is enabled and was not switched off by a close, the endpoint is not
\* open, no request is pending and the management thread has not been told to stop
AutoReopenArmed ==
    /\ AutoReopenDue
    /\ \A cat \in OpCats : ext_p[cat] = NULL
    /\ ~ANY_REQUEST(active_ops)
    /\ mpc \notin {"destruct", "exited"}

\* the common options kept for retries change in this step
CommonOptsChange == m_common_open_opts' # m_common_open_opts

\* the management thread accepts an open requested by a user thread in this step
AcceptsUserOpen ==
    /\ is_requested(active_ops, OPEN)
    /\ ext_p[OPEN] \in Callers
    /\ is_accepted(active_ops', OPEN)

\* C12: whenever auto-reopen is armed the management thread issues a synthetic open
\* (unless a new request arrives first, or the endpoint is open again), and the common
\* options a synthetic open uses are those saved when the last user open or reopen was
\* accepted: nothing else, in particular no failed or synthetic open, changes them.
C12_SyntheticOpenWithLastArgs ==
    /\ AutoReopenArmed ~> (tp[OPEN] = AUTO_OP \/ ANY_REQUEST(active_ops) \/ ~AutoReopenDue)
    /\ [][CommonOptsChange => AcceptsUserOpen]_vars

\* an open or a close is in flight: requested or accepted, and not yet completed
InFlight(cat) == is_requested(active_ops, cat) \/ is_accepted(active_ops, cat)
OpenOrCloseInFlight == InFlight(OPEN) \/ InFlight(CLOSE)

\* process_send_receive is invoked in this step
InvokesSendReceive ==
    /\ mpc = "hook" /\ mpc' # "hook"
    /\ tp[CLOSE] = NULL /\ tp[OPEN] = NULL

\* a send or receive is marked completed in this step
CompletesSendReceive ==
    \E cat \in {SEND, RECEIVE} : ~is_complete(active_ops, cat) /\ is_complete(active_ops', cat)

\* a send or receive is admitted by the front door in this step
AdmitsSendReceive ==
    \E cat \in {SEND, RECEIVE} : ~is_requested(active_ops, cat) /\ is_requested(active_ops', cat)

\* C13: open and close are never in flight together, and while either is in flight
\* process_send_receive is not invoked, no pending send or receive is completed and no
\* new send or receive is admitted.
C13_OpenCloseExcludeSendReceive ==
    /\ [](~(InFlight(OPEN) /\ InFlight(CLOSE)))
    /\ [][OpenOrCloseInFlight =>
            ~(InvokesSendReceive \/ CompletesSendReceive \/ AdmitsSendReceive)]_vars

\* ------------------------------------------------------------------ hook selection
\* a step of the management thread that calls one of the process_* hooks
InvokesHook == mpc = "hook" /\ mpc' # "hook"

\* the hook the priority order picks for the op records taken up
SelectedHook ==
    IF tp[CLOSE] # NULL THEN "process_close"
    ELSE IF tp[OPEN] # NULL THEN "process_open"
    ELSE IF tp[SEND] # NULL \/ tp[RECEIVE] # NULL THEN "process_send_receive"
    ELSE "none"

DueForTimeout(cat) ==
    /\ mpc = EndPc(cat)
    /\ tp[cat] # NULL
    /\ is_operating(op[tp[cat]].status)
    /\ op[tp[cat]].end_time < now

\* the caller's op was ended with TIMED_OUT and the caller has not returned yet
TimedOutOp(c) == pc[c] \in {"wake", "wait"} /\ op[c].status = TIMED_OUT

\* C15: after the hook, an op still operating past its deadline is given TIMED_OUT
\* and taken out of the dispatcher (its pointers cleared and, for a caller's op, the
\* category marked complete so that the caller's wait ends), and its caller returns
\* TIMED_OUT
C15_TimedOutOpReturns ==
    /\ [][\A cat \in OpCats : (DueForTimeout(cat) /\ mpc' # mpc) =>
             /\ op'[tp[cat]].status = TIMED_OUT
             /\ tp'[cat] = NULL
             /\ ext_p'[cat] = NULL
             /\ tp[cat] \in Callers => is_complete(active_ops', cat)]_vars
    /\ [][\A c \in Callers : (TimedOutOp(c) /\ pc'[c] = "idle") =>
             returned'.status = TIMED_OUT]_vars
    /\ \A c \in Callers : TimedOutOp(c) ~> (pc[c] = "idle")

\* ------------------------------------------------------------------ one timeout, one op
\* the end_transaction step that gives the op of category cat TIMED_OUT
TimesOut(cat) == DueForTimeout(cat) /\ mpc' # mpc

\* the step leaves every op record, pointer and phase of the other categories alone
OthersUntouched(cat) ==
    /\ \A k \in OpCats \ {cat} :
          tp'[k] = tp[k] /\ ext_p'[k] = ext_p[k] /\ active_ops'[k] = active_ops[k]
    /\ \A w \in Owners \ {tp[cat]} : op'[w] = op[w]

\* C16 as stated: when an op of any category times out, only that op is cancelled, the
\* other pending ops keep their record and status, and the open status is unchanged
C16_TimeoutCancelsOnlyThatOp ==
    [][\A cat \in OpCats : TimesOut(cat) =>
          (OthersUntouched(cat) /\ m_open_status' = m_open_status)]_vars

\* C16 amended: that holds for a send, receive or close that times out; a timed-out
\* open leaves the other op records alone too, but TIMED_OUT becomes the open status
C16_IoTimeoutCancelsOnlyThatOp ==
    /\ [][\A cat \in {SEND, RECEIVE, CLOSE} : TimesOut(cat) =>
             (OthersUntouched(cat) /\ m_open_status' = m_open_status)]_vars
    /\ [][TimesOut(OPEN) => (m_open_status' = TIMED_OUT /\ \A w \in Owners \ {tp[OPEN]} : op'[w] = op[w])]_vars

\* a send has just timed out on an open endpoint while a receive of another caller
\* is still operating
C16_Witness ==
    /\ \E c \in Callers : call[c].cat = SEND /\ op[c].status = TIMED_OUT /\ pc[c] = "wait"
    /\ \E d \in Callers : tp[RECEIVE] = d /\ is_operating(op[d].status)
    /\ m_open_status = SUCCESS

\* ------------------------------------------------------------------ calls on an endpoint that is not open
\* this step is a thread entering a public call of category cat
CallsCat(cat) ==
    /\ ncalls' = ncalls + 1
    /\ IF pc'[FirstIdle] = "idle" THEN returned'.cat = cat ELSE call'[FirstIdle].cat = cat

\* the call entered in this step returns in the same step with status st, with no op
\* record installed, no request started and the open status as it was
RejectedAtOnce(st) ==
    /\ pc' = pc
    /\ returned'.status = st
    /\ ext_p' = ext_p
    /\ active_ops' = active_ops
    /\ m_open_status' = m_open_status

\* C17 as stated: whenever the open status is not SUCCESS, a send, receive or close
\* call returns NOT_OPEN at once, with no op installed and the open status kept; so
\* does every send and receive after a close has returned SUCCESS, until an open succeeds
C17_NotOpenAtOnce ==
    /\ [][\A cat \in {SEND, RECEIVE, CLOSE} :
             (CallsCat(cat) /\ m_open_status # SUCCESS) => RejectedAtOnce(NOT_OPEN)]_vars
    /\ [][\A cat \in {SEND, RECEIVE} :
             (CallsCat(cat) /\ closed_ok) => RejectedAtOnce(NOT_OPEN)]_vars

\* the status of a call rejected on an endpoint that is not open: destruction and an
\* installed receive callback are looked at first
NotOpenStatus(cat) ==
    IF ANY_DESTROY(active_ops) THEN CANCELED_IN_DESTROY
    ELSE IF cat = RECEIVE /\ p_rx_callback THEN DISABLED
    ELSE NOT_OPEN

\* C17 amended: such a call returns at once, with no op installed and the open status
\* kept, with NOT_OPEN unless a destruction has been requested (CANCELED_IN_DESTROY)
\* or it is a receive with a receive callback installed (DISABLED)
C17_RejectedAtOnce ==
    /\ [][\A cat \in {SEND, RECEIVE, CLOSE} :
             (CallsCat(cat) /\ m_open_status # SUCCESS) => RejectedAtOnce(NotOpenStatus(cat))]_vars
    /\ [][\A cat \in {SEND, RECEIVE} :
             (CallsCat(cat) /\ closed_ok) => RejectedAtOnce(NotOpenStatus(cat))]_vars

\* a send was rejected with NOT_OPEN while an open was in flight on an endpoint whose
\* last open had failed, and the open status still tells the error
C17_Witness ==
    /\ returned.cat = SEND /\ returned.status = NOT_OPEN
    /\ m_open_status = ERROR_CODE
    /\ InFlight(OPEN)

\* ------------------------------------------------------------------ manual receive under a callback
\* C18 as stated: while a receive callback is installed, every receive call returns
\* DISABLED at once, with no op record installed
C18_ReceiveDisabled ==
    [][(CallsCat(RECEIVE) /\ p_rx_callback) => RejectedAtOnce(DISABLED)]_vars

\* C18 amended: it returns at once with no op record installed, with DISABLED unless
\* a destruction has been requested (then CANCELED_IN_DESTROY)
C18_ReceiveDisabledOrCanceled ==
    [][(CallsCat(RECEIVE) /\ p_rx_callback) =>
          RejectedAtOnce(IF ANY_DESTROY(active_ops) THEN CANCELED_IN_DESTROY ELSE DISABLED)]_vars

\* a receive call came back DISABLED on an open endpoint whose callback receive was
\* being worked on
C18_Witness ==
    /\ returned.cat = RECEIVE /\ returned.status = DISABLED
    /\ p_rx_callback /\ m_open_status = SUCCESS
    /\ tp[RECEIVE] = CB_OP

\* ------------------------------------------------------------------ the receive callback
\* the management thread calls the receive callback in this step
CallbackInvoked == mpc # "callback" /\ mpc' = "callback"

\* the callback's own receive record holds a receive that has ended and that the
\* callback is to be told about
CompletedInternalReceive ==
    /\ p_rx_callback
    /\ ~is_operating(op[CB_OP].status)
    /\ op[CB_OP].status # NOT_OPEN

\* the management thread passes the callback driver at the start of single_operation
PassesCallbackDriver == mpc = "top" /\ mpc' # "top"

\* the callback is called only for an ended internal receive whose status is not
\* NOT_OPEN, with its record out of the dispatcher's tables; the record stays as it
\* is while the callback runs between two locked blocks, and is reset right after
CallbackOnlyForCompleted ==
    /\ [][CallbackInvoked =>
             (CompletedInternalReceive /\ ext_p[RECEIVE] = NULL /\ tp[RECEIVE] = NULL)]_vars
    /\ [](mpc = "callback" => (CompletedInternalReceive /\ tp[RECEIVE] # CB_OP))
    /\ [][(mpc = "callback" /\ mpc' # "callback") =>
             (mpc' = "destruct" \/ op'[CB_OP] = FreshOp(TimeMax))]_vars
    /\ [][(~is_operating(op[CB_OP].status) /\ op'[CB_OP] # op[CB_OP]) =>
             (mpc = "callback" \/ op[CB_OP].status = NOT_OPEN)]_vars

\* C19 as stated: with a callback installed, the callback is called exactly once for
\* each internal receive that ends with a status other than NOT_OPEN, outside of the
\* mutex and before the record is reset, and never otherwise
C19_CallbackOncePerReceive ==
    /\ CallbackOnlyForCompleted
    /\ [][(PassesCallbackDriver /\ CompletedInternalReceive) => CallbackInvoked]_vars

\* C19 amended: the same, unless a destruction has been requested by the time the
\* management thread gets to the callback driver: then the callback is not called
C19_CallbackOnceUnlessDestroy ==
    /\ CallbackOnlyForCompleted
    /\ [][(PassesCallbackDriver /\ CompletedInternalReceive /\ ~is_requested(active_ops, DESTROY))
             => CallbackInvoked]_vars

\* the callback is running for a receive that ended with SUCCESS
C19_Witness == mpc = "callback" /\ op[CB_OP].status = SUCCESS /\ m_open_status = SUCCESS


\* ------------------------------------------------------------------ installing the common options
\* end_transaction ends the open op in this step; EndedOpenStatus is its final status
OpenEnds == mpc = "end_open" /\ tp[OPEN] # NULL /\ tp'[OPEN] = NULL
EndedOpenStatus == op'[tp[OPEN]].status

\* the callback and the auto-reopen setting once the options the open carried are in
\* effect (an option with no update leaves the setting as it was)
CarriedCallback ==
    CASE m_common_open_opts.cb = "install" -> TRUE
      [] m_common_open_opts.cb = "remove"  -> FALSE
      [] OTHER -> p_rx_callback
CarriedAutoReopen ==
    CASE m_common_open_opts.auto = "enable"  -> TRUE
      [] m_common_open_opts.auto = "disable" -> FALSE
      [] OTHER -> auto_reopen_after

\* the callback and auto-reopen setting change only when an open ends
OnlyOpenInstalls ==
    [][(p_rx_callback' # p_rx_callback \/ auto_reopen_after' # auto_reopen_after) => OpenEnds]_vars

ReopenHookOnOpenEndpoint ==
    /\ mpc = "hook" /\ mpc' # "hook" /\ last_hook' = "process_open"
    /\ tp[OPEN] \in Callers /\ call[tp[OPEN]].reopen
    /\ m_open_status = SUCCESS
    /\ op'[tp[OPEN]].status = SUCCESS

\* C21: a reopen on an endpoint whose open status is SUCCESS closes the existing
\* connection before the new one is opened: when the open hook has opened the new
\* connection the open status has left SUCCESS (which is what makes the dispatcher
\* cancel the pending send and receive with NOT_OPEN right after the hook)
C21_ReopenClosesFirst ==
    [][ReopenHookOnOpenEndpoint => m_open_status' # SUCCESS]_vars

\* open() and open(settings), as a caller passes them to transact_operation
PlainOpenCalls == { args \in OpenCalls : ~args.reopen /\ args.end_time > now }

\* the endpoint is open and left alone: no destroy requested, no thread inside open,
\* reopen or close, and no open or close handed to the transport
OpenAndQuiet ==
    /\ m_open_status = SUCCESS
    /\ ~ANY_DESTROY(active_ops)
    /\ \A c \in Callers : call[c].cat \notin {OPEN, CLOSE}
    /\ \A cat \in {OPEN, CLOSE} : ext_p[cat] = NULL /\ tp[cat] = NULL

\* C22: an open (not a reopen) made while the open status is SUCCESS is answered with
\* FAILED_ALREADY_OPEN at the front door: it does not wait and no op is installed.
C22_OpenOnOpenFailsAtOnce ==
    OpenAndQuiet =>
        \A args \in PlainOpenCalls :
            /\ FrontDoorPred(active_ops, m_open_status, OPEN)
            /\ FrontDoorReject(active_ops, m_open_status, args) = FAILED_ALREADY_OPEN

\* ------------------------------------------------------------------ raw variant
\* The raw endpoint (cpptxrx_raw.h: the same factory compiled without the management
\* thread) runs one pass of single_operation inside every public call, on the
\* caller's thread. There is one caller, RawCaller; pc[RawCaller] = "raw" while it is
\* inside a call, and mpc is the position of that call inside single_operation.
RawCaller == "A"

RECV_CALLBACK_NOT_VALID_IN_RAW == "RECV_CALLBACK_NOT_VALID_IN_RAW"

\* the arguments of the calls made on a raw endpoint
RawCalls ==
    { [cat |-> OPEN, reopen |-> r, has_opts |-> h, copts |-> co, end_time |-> OpenDeadline] :
        r \in BOOLEAN, h \in BOOLEAN,
        co \in { NullCommonOpts, [cb |-> "install", auto |-> UseExisting],
                 [cb |-> "remove", auto |-> UseExisting] } }
    \cup IoCalls \cup {DestroyCall}

\* the raw endpoint right after its constructor has returned
RawInit ==
    /\ now = 0
    /\ pc = [c \in Callers |-> "idle"]
    /\ call = [c \in Callers |-> NoCall]
    /\ ncalls = 0
    /\ returned = [cat |-> "none", status |-> NoResult, hist |-> NoHist]
    /\ hist = [c \in Callers |-> NoHist]
    /\ closed_ok = FALSE
    /\ op = [o \in Owners |-> IF o = CB_OP THEN FreshOp(TimeMax) ELSE FreshOp(0)]
    /\ active_ops = [cat \in op_category_e |-> IDLE]
    /\ ext_p = [cat \in OpCats |-> NULL]
    /\ tp = [cat \in OpCats |-> NULL]
    /\ m_open_status = NOT_OPEN
    /\ m_open_opts_initialized = FALSE
    /\ m_common_open_opts = DefaultCommonOpts
    /\ p_rx_callback = FALSE
    /\ auto_reopen_after = FALSE
    /\ allow_auto_reopening = FALSE
    /\ mpc = "top"
    /\ destruct_count = 0
    /\ destroy_returned = FALSE
    /\ hook_after_destroy = FALSE
    /\ last_hook = "none"
    /\ NoFilter
    /\ NoOpenArgs

\* the status the raw transact_operation returns before installing the op, or NULL
\* when the op is to be installed (there is no wait and no time-out at the front)
RawFrontDoorReject(a, st, args) ==
    IF ANY_DESTROY(a) THEN CANCELED_IN_DESTROY
    ELSE IF is_disabled(a, args.cat) THEN DISABLED
    ELSE IF args.cat \in {RECEIVE, SEND, CLOSE}
    THEN (IF st # SUCCESS THEN NOT_OPEN ELSE NULL)
    ELSE IF ~args.reopen /\ st = SUCCESS THEN FAILED_ALREADY_OPEN
    ELSE IF ~args.has_opts /\ ~m_open_opts_initialized THEN NO_PRIOR_OPEN_ARGS
    ELSE IF args.copts # NullCommonOpts /\ args.copts.cb = "install"
    THEN RECV_CALLBACK_NOT_VALID_IN_RAW
    ELSE NULL

\* the raw single_operation up to the hooks: pointer swap and acceptance of the
\* requests; e, a, o: the external pointers, the phases and the op records after the
\* call's front part; co: the common options the call passed
RawSwapAndAccept(e, a, o, co) ==
    /\ ext_p' = e
    /\ tp' = e
    /\ active_ops' = AcceptedOps(a)
    /\ m_open_opts_initialized' = (m_open_opts_initialized \/ is_requested(a, OPEN))
    /\ m_common_open_opts' =
          IF is_requested(a, OPEN) /\ e[OPEN] # NULL /\ co # NullCommonOpts
          THEN co ELSE m_common_open_opts
    /\ op' = IF is_requested(a, OPEN) /\ e[OPEN] # NULL
             THEN [o EXCEPT ![AUTO_OP] = o[e[OPEN]]] ELSE o
    /\ mpc' = IF no_active_transactions(e) THEN "top" ELSE "hook"

\* a public call on the raw endpoint, up to the hook its one pass of
\* single_operation invokes: the front part of transact_operation or of destroy,
\* start_request, pointer swap and acceptance
RawCall(args) ==
    /\ pc[RawCaller] = "idle"
    /\ mpc = "top"
    /\ ncalls < MaxCalls
    /\ ncalls' = ncalls + 1
    /\ LET cat == args.cat
           rej == IF cat = DESTROY
                  THEN (IF ANY_DESTROY(active_ops) THEN "void" ELSE NULL)
                  ELSE RawFrontDoorReject(active_ops, m_open_status, args)
       IN  IF rej # NULL
           THEN /\ Return(RawCaller, cat, rej)
                /\ m_open_status' =
                      IF rej = RECV_CALLBACK_NOT_VALID_IN_RAW THEN rej ELSE m_open_status
                /\ UNCHANGED << active_ops, ext_p, tp, m_open_opts_initialized,
                                m_common_open_opts, mpc >>
           ELSE /\ pc' = [pc EXCEPT ![RawCaller] = "raw"]
                /\ call' = [call EXCEPT ![RawCaller] = args]
                /\ IF cat = DESTROY
                   THEN RawSwapAndAccept(ext_p, start_request(active_ops, DESTROY), op,
                                         NullCommonOpts)
                   ELSE RawSwapAndAccept([ext_p EXCEPT ![cat] = RawCaller],
                                         start_request(active_ops, cat),
                                         [op EXCEPT ![RawCaller] = FreshOp(args.end_time)],
                                         args.copts)
                /\ UNCHANGED << returned, hist, closed_ok, m_open_status >>
    /\ UNCHANGED << now, p_rx_callback, auto_reopen_after, allow_auto_reopening,
                    destruct_count, destroy_returned, hook_after_destroy, last_hook >>
    /\ UNCHANGED << fvars, ovars >>

\* the end of a public call on the raw endpoint, after the one pass of
\* single_operation: destroy calls destruct(); transact_operation returns
\* CANCELED_IN_DESTROY when the category was not marked complete by that pass, and
\* otherwise ends the request and returns the op's status
RawReturn ==
    /\ pc[RawCaller] = "raw"
    /\ mpc = "top"
    /\ LET cat == call[RawCaller].cat IN
       IF cat = DESTROY
       THEN /\ Return(RawCaller, DESTROY, "void")
            /\ destruct_count' = destruct_count + 1
            /\ destroy_returned' = TRUE
            /\ HookInvoked
            /\ UNCHANGED active_ops
       ELSE IF ~is_complete(active_ops, cat)
       THEN /\ Return(RawCaller, cat, CANCELED_IN_DESTROY)
            /\ UNCHANGED << active_ops, destruct_count, destroy_returned, hook_after_destroy >>
       ELSE /\ active_ops' = end_request(active_ops, cat)
            /\ Return(RawCaller, cat, op[RawCaller].status)
            /\ UNCHANGED << destruct_count, destroy_returned, hook_after_destroy >>
    /\ UNCHANGED << now, ncalls, ext_p, tp, m_open_status, m_open_opts_initialized,
                    m_common_open_opts, p_rx_callback, auto_reopen_after,
                    allow_auto_reopening, mpc, last_hook >>
    /\ UNCHANGED << fvars, ovars >>

RawNext ==
    \/ \E args \in RawCalls : RawCall(args)
    \/ RawReturn
    \/ ProcessClose
    \/ ProcessOpen
    \/ ProcessSendReceive
    \/ \E cat \in OpCats : end_transaction(cat)
    \/ Tick

RawSpec == RawInit /\ [][RawNext]_vars

\* C23: a public call returns CANCELED_IN_DESTROY only if destroy has been requested
\* on the endpoint (the destroy bits are never cleared once set).
C23_CanceledOnlyAfterDestroyRequest ==
    returned.status = CANCELED_IN_DESTROY => ANY_DESTROY(active_ops)

\* is_open()
is_open == m_open_status = SUCCESS

\* C24: once destroy has returned, the open status is NOT_OPEN and is_open() is
\* false.
C24_NotOpenAfterDestroy ==
    destroy_returned => (m_open_status = NOT_OPEN /\ ~is_open)

\* ------------------------------------------------------------------ filters
\* The filter pipeline (cpptxrx_filter.h, cpptxrx_filters.h, cpptxrx_filter_processor.h):
\* one filter_processor with the chain installed in it, the storage arrays the chain's
\* filters own, the user's buffer of the external op, and the transport that serves
\* the internal ops.

\* the capacity of every filter's local storage arrays (the max_size template
\* argument, the same for all filters of the chain) and the physical size of every
\* byte array looked at
max_packet_size == MaxPacketSize

\* slip::frame_end, frame_escape, transposed_frame_end, transposed_frame_escape
frame_end               == 192
frame_escape            == 219
transposed_frame_end    == 220
transposed_frame_escape == 221

\* the bytes the transport and the user put into messages
Bytes == {1, frame_end, frame_escape, transposed_frame_end}

\* filter::result_e
CONTINUE                 == "CONTINUE"
FORCE_TO_KEEP_PROCESSING == "FORCE_TO_KEEP_PROCESSING"
ABORT                    == "ABORT"
ABORT_EXCEEDED_STORAGE   == "ABORT_EXCEEDED_STORAGE"
ABORT_DATA_FORMAT_ERROR  == "ABORT_DATA_FORMAT_ERROR"
is_aborted(r) == r \in {ABORT, ABORT_EXCEEDED_STORAGE, ABORT_DATA_FORMAT_ERROR}

\* restrict_storage_e
ALLOW_REUSE_OF_INPUT_MEMORY_AS_OUTPUT == "ALLOW_REUSE_OF_INPUT_MEMORY_AS_OUTPUT"
NEVER_USE_INPUT_MEMORY_AS_OUTPUT      == "NEVER_USE_INPUT_MEMORY_AS_OUTPUT"

\* the built-in filters, with the arguments they are constructed with
forward_by_copy     == [kind |-> "forward_by_copy",     n |-> 0, bytes |-> << >>, flag |-> FALSE]
forward_by_pointing == [kind |-> "forward_by_pointing", n |-> 0, bytes |-> << >>, flag |-> FALSE]
data_append(b)      == [kind |-> "data_append",         n |-> 0, bytes |-> b,     flag |-> FALSE]
enforce_fixed_size(k) == [kind |-> "enforce_fixed_size", n |-> k, bytes |-> << >>, flag |-> FALSE]
split_if_larger(k)  == [kind |-> "split_if_larger",     n |-> k, bytes |-> << >>, flag |-> FALSE]
data_delimit(b)     == [kind |-> "data_delimit",        n |-> 0, bytes |-> b,     flag |-> FALSE]
repeat(k)           == [kind |-> "repeat",              n |-> k, bytes |-> << >>, flag |-> FALSE]
\* flag: prefix_with_frame_end_e::YES
slip_encode(p)      == [kind |-> "slip::encode",        n |-> 0, bytes |-> << >>, flag |-> p]
\* flag: wait_for_first_frame_end_e::YES
slip_decode(w)      == [kind |-> "slip::decode",        n |-> 0, bytes |-> << >>, flag |-> w]

\* the restrict_storage template argument each built-in filter passes to base_class
restrict_storage(f) ==
    IF f.kind \in {"forward_by_pointing", "data_append"}
    THEN ALLOW_REUSE_OF_INPUT_MEMORY_AS_OUTPUT
    ELSE NEVER_USE_INPUT_MEMORY_AS_OUTPUT

\* ------------------------------------------------------------------ storage
\* the byte arrays: local_input_storage and local_output_storage of the i-th filter,
\* the buffer of the external receive, the data of the external send
local_input_storage(i)  == << "local_input_storage", i >>
local_output_storage(i) == << "local_output_storage", i >>
user_rx_data            == << "user_rx_data", 0 >>
user_tx_data            == << "user_tx_data", 0 >>
nullptr                 == << "nullptr", 0 >>

Zeros == [i \in 1..max_packet_size |-> 0]

\* storage_abstract_t: max_size, size, and the bytes data points to
storage_t(cap) == [max_size |-> cap, size |-> 0, data |-> Zeros]

\* data_t: a pointer into a byte array (array and offset) and a size
NoData == [st |-> nullptr, off |-> 0, size |-> 0]
\* data_t::operator bool
Live(d) == d.size > 0 /\ d.st # nullptr
\* a data_t that is not live is never read: all such values are kept as one
Norm(d) == IF Live(d) THEN d ELSE NoData

\* the bytes a data_t stands for
Content(m, d) == [i \in 1..d.size |-> m[d.st].data[d.off + i]]

\* the bytes b written to the array s from index start (0-based) on
WriteAt(m, s, start, b) ==
    [m EXCEPT ![s].data =
        [i \in DOMAIN m[s].data |->
            IF i > start /\ i <= start + Len(b) THEN b[i - start] ELSE @[i]]]

\* data_t::start_and_consume(storage)
start_and_consume(m, s) ==
    [mem |-> [m EXCEPT ![s].size = 0],
     out |-> Norm([st |-> s, off |-> 0, size |-> m[s].size])]

\* data_t::copy_to_lazily(storage): FALSE in ok when the data does not fit
copy_to_lazily(m, d, s) ==
    IF d.size > m[s].max_size THEN [ok |-> FALSE, mem |-> m]
    ELSE [ok |-> TRUE,
          mem |-> LET m1 == IF d.st = s /\ d.off = 0 THEN m
                            ELSE WriteAt(m, s, 0, Content(m, d))
                  IN  [m1 EXCEPT ![s].size = d.size]]

\* storage_abstract_t::append(data, size)
append(m, s, b) ==
    IF m[s].size + Len(b) > m[s].max_size THEN [ok |-> FALSE, mem |-> m]
    ELSE [ok |-> TRUE,
          mem |-> [WriteAt(m, s, m[s].size, b) EXCEPT ![s].size = m[s].size + Len(b)]]

\* ------------------------------------------------------------------ the built-in filters
\* the member variables of a filter object: matched_delimiter_elements (delimit),
\* send_counter (repeat), in_escape and need_first_frame_end (slip::decode)
FilterReset(f) ==
    [matched_delimiter_elements |-> 0, send_counter |-> 0, in_escape |-> FALSE,
     need_first_frame_end |-> (f.kind = "slip::decode" /\ f.flag)]

\* what one call of a filter's operator() leaves behind: the byte arrays, the
\* filter's members, its input and output data_t, the result_e returned, and
\* whether it wrote past the max_size of the array it wrote to
FilterOut(m, fs, in, out, r, ovf) ==
    [mem |-> m, fst |-> fs, in |-> Norm(in), out |-> Norm(out), r |-> r, ovf |-> ovf]

\* k bytes copied one by one, in ascending order, from the input to the end of
\* the array s: storage.data[storage.size++] = *(input.data++)
RECURSIVE MoveBytes(_, _, _, _)
MoveBytes(m, in, s, k) ==
    IF k = 0 THEN [mem |-> m, in |-> in]
    ELSE MoveBytes(
            [m EXCEPT ![s].data[m[s].size + 1] = m[in.st].data[in.off + 1],
                      ![s].size = @ + 1],
            [in EXCEPT !.off = @ + 1, !.size = @ - 1], s, k - 1)

Min(a, b) == IF a < b THEN a ELSE b
Max(a, b) == IF a > b THEN a ELSE b

\* forward_by_copy::operator()
Op_forward_by_copy(f, s, m, fs, in, out) ==
    LET c == copy_to_lazily(m, in, s)
        o == start_and_consume(c.mem, s)
    IN  IF ~c.ok THEN FilterOut(m, fs, in, out, ABORT_EXCEEDED_STORAGE, FALSE)
        ELSE FilterOut(o.mem, fs, NoData, o.out, CONTINUE, FALSE)

\* forward_by_pointing::operator(): input.pass_to(output)
Op_forward_by_pointing(f, s, m, fs, in, out) ==
    FilterOut(m, fs, NoData, in, CONTINUE, FALSE)

\* data_append::operator() and type_append::operator()
Op_data_append(f, s, m, fs, in, out) ==
    LET c == copy_to_lazily(m, in, s)
        a == append(c.mem, s, f.bytes)
        o == start_and_consume(a.mem, s)
    IN  IF ~c.ok THEN FilterOut(m, fs, in, out, ABORT_EXCEEDED_STORAGE, FALSE)
        ELSE IF ~a.ok THEN FilterOut(c.mem, fs, in, out, ABORT_EXCEEDED_STORAGE, FALSE)
        ELSE FilterOut(o.mem, fs, NoData, o.out, CONTINUE, FALSE)

\* enforce_fixed_size::operator() (whole TRUE) and split_if_larger::operator()
\* (whole FALSE): bytes are written while storage.size is below the limit, with no
\* look at the max_size of the array
Op_accumulate(f, s, m, fs, in, out, whole) ==
    LET k   == Min(in.size, Max(0, f.n - m[s].size))
        mv  == MoveBytes(m, in, s, k)
        ovf == mv.mem[s].size > mv.mem[s].max_size
        o   == start_and_consume(mv.mem, s)
        emit == IF whole THEN mv.mem[s].size >= f.n ELSE mv.mem[s].size > 0
    IN  IF emit THEN FilterOut(o.mem, fs, mv.in, o.out, CONTINUE, ovf)
        ELSE FilterOut(mv.mem, fs, mv.in, out, CONTINUE, ovf)

\* data_delimit::operator() and type_delimit::operator(): the while loop
RECURSIVE Op_data_delimit(_, _, _, _, _, _)
Op_data_delimit(f, s, m, fs, in, out) ==
    IF ~Live(in) THEN FilterOut(m, fs, in, out, CONTINUE, FALSE)
    ELSE
    LET next_byte == m[in.st].data[in.off + 1]
        in1       == [in EXCEPT !.off = @ + 1, !.size = @ - 1]
        hit       == next_byte = f.bytes[fs.matched_delimiter_elements + 1]
        matched   == IF hit THEN fs.matched_delimiter_elements + 1 ELSE 0
        fs1       == [fs EXCEPT !.matched_delimiter_elements = matched]
        a         == append(m, s, << next_byte >>)
    IN  IF hit /\ matched >= Len(f.bytes)
        THEN LET m1 == [m EXCEPT ![s].size = @ - (Len(f.bytes) - 1)]
                 o  == start_and_consume(m1, s)
             IN  FilterOut(o.mem, [fs EXCEPT !.matched_delimiter_elements = 0],
                           in1, o.out, CONTINUE, FALSE)
        ELSE IF ~a.ok THEN FilterOut(m, fs1, in1, out, ABORT_EXCEEDED_STORAGE, FALSE)
        ELSE Op_data_delimit(f, s, a.mem, fs1, in1, out)

\* repeat::operator(): the output points at the input's bytes
Op_repeat(f, s, m, fs, in, out) ==
    IF fs.send_counter + 1 >= f.n
    THEN FilterOut(m, [fs EXCEPT !.send_counter = 0], NoData, in, CONTINUE, FALSE)
    ELSE FilterOut(m, [fs EXCEPT !.send_counter = @ + 1], in, in, CONTINUE, FALSE)

\* an encoder that puts transposed_frame_end behind every frame_escape
transposed_AlwaysEnd(element) == transposed_frame_end

\* the byte slip::encode puts behind frame_escape in place of a frame_end or
\* frame_escape byte
transposed(element) ==
    IF element = frame_end THEN transposed_frame_end ELSE transposed_frame_escape

\* slip::encode::operator(): the for loop from element i (0-based) on;
\* FALSE in ok when minimum_encoded_size grew past storage.max_size
RECURSIVE slip_encode_loop(_, _, _, _, _)
slip_encode_loop(m, s, in, i, minimum_encoded_size) ==
    IF i >= in.size THEN [ok |-> TRUE, mem |-> m]
    ELSE
    LET element == m[in.st].data[in.off + i + 1]
        put(mm, b) == [mm EXCEPT ![s].data[mm[s].size + 1] = b, ![s].size = @ + 1]
    IN  IF element \in {frame_end, frame_escape}
        THEN IF minimum_encoded_size + 1 > m[s].max_size THEN [ok |-> FALSE, mem |-> m]
             ELSE slip_encode_loop(
                     put(put(m, frame_escape), transposed(element)),
                     s, in, i + 1, minimum_encoded_size + 1)
        ELSE slip_encode_loop(put(m, element), s, in, i + 1, minimum_encoded_size)

\* slip::encode::operator()
Op_slip_encode(f, s, m, fs, in, out) ==
    LET minimum_encoded_size == in.size + 1 + (IF f.flag THEN 1 ELSE 0)
        m0 == [m EXCEPT ![s].size = 0]
        m1 == IF f.flag THEN [m0 EXCEPT ![s].data[1] = frame_end, ![s].size = 1] ELSE m0
        l  == slip_encode_loop(m1, s, in, 0, minimum_encoded_size)
        m2 == [l.mem EXCEPT ![s].data[l.mem[s].size + 1] = frame_end, ![s].size = @ + 1]
        o  == start_and_consume(m2, s)
    IN  IF minimum_encoded_size > m[s].max_size
        THEN FilterOut(m, fs, in, out, ABORT_EXCEEDED_STORAGE, FALSE)
        ELSE IF ~l.ok THEN FilterOut(l.mem, fs, in, out, ABORT_EXCEEDED_STORAGE, FALSE)
        ELSE FilterOut(o.mem, fs, NoData, o.out, CONTINUE, FALSE)

\* slip::decode::operator(): the while loop
RECURSIVE Op_slip_decode(_, _, _, _, _, _)
Op_slip_decode(f, s, m, fs, in, out) ==
    IF ~Live(in) THEN FilterOut(m, fs, in, out, CONTINUE, FALSE)
    ELSE
    LET element == m[in.st].data[in.off + 1]
        in1     == [in EXCEPT !.off = @ + 1, !.size = @ - 1]
        plain   == IF fs.in_escape
                   THEN IF element = transposed_frame_end THEN frame_end ELSE frame_escape
                   ELSE element
        a       == append(m, s, << plain >>)
        fs1     == [fs EXCEPT !.in_escape = FALSE]
        o       == start_and_consume(m, s)
    IN  IF fs.need_first_frame_end
        THEN Op_slip_decode(f, s, m, [fs EXCEPT !.need_first_frame_end = element # frame_end],
                            in1, out)
        ELSE IF fs.in_escape
        THEN IF element \in {transposed_frame_end, transposed_frame_escape}
             THEN IF ~a.ok THEN FilterOut(m, fs1, in1, out, ABORT_EXCEEDED_STORAGE, FALSE)
                  ELSE Op_slip_decode(f, s, a.mem, fs1, in1, out)
             ELSE FilterOut(m, fs1, in1, out, ABORT_DATA_FORMAT_ERROR, FALSE)
        ELSE IF element = frame_end
        THEN IF m[s].size > 0 THEN FilterOut(o.mem, fs, in1, o.out, CONTINUE, FALSE)
             ELSE Op_slip_decode(f, s, m, fs, in1, out)
        ELSE IF element = frame_escape
        THEN Op_slip_decode(f, s, m, [fs EXCEPT !.in_escape = TRUE], in1, out)
        ELSE IF ~a.ok THEN FilterOut(m, fs, in1, out, ABORT_EXCEEDED_STORAGE, FALSE)
        ELSE Op_slip_decode(f, s, a.mem, fs, in1, out)

\* the virtual call of operator() on the filter f, whose best output storage is s
filter_call(f, s, m, fs, in, out) ==
    CASE f.kind = "forward_by_copy"     -> Op_forward_by_copy(f, s, m, fs, in, out)
      [] f.kind = "forward_by_pointing" -> Op_forward_by_pointing(f, s, m, fs, in, out)
      [] f.kind = "data_append"         -> Op_data_append(f, s, m, fs, in, out)
      [] f.kind = "enforce_fixed_size"  -> Op_accumulate(f, s, m, fs, in, out, TRUE)
      [] f.kind = "split_if_larger"     -> Op_accumulate(f, s, m, fs, in, out, FALSE)
      [] f.kind = "data_delimit"        -> Op_data_delimit(f, s, m, fs, in, out)
      [] f.kind = "repeat"              -> Op_repeat(f, s, m, fs, in, out)
      [] f.kind = "slip::encode"        -> Op_slip_encode(f, s, m, fs, in, out)
      [] f.kind = "slip::decode"        -> Op_slip_decode(f, s, m, fs, in, out)

\* ------------------------------------------------------------------ base_class and chained
\* The chain installed in a processor is the sequence ch of its filters, nested as
\* a.chain(b).chain(c) nests them: node k is chained<node k-1, ch[k]> and node 1 is ch[1].
\* The state of a chain, S: the byte arrays (mem), each filter's members (fst), its
\* best_input_storage and best_output_storage (best), each node's mid, f1_result and
\* f2_result, and whether a filter wrote past the end of an array (ovf).

ProcessOut(S, in, out, r, err) ==
    [S |-> S, in |-> in, out |-> out, r |-> r, err |-> err]

\* base_class::process of the filter ch[i], from the return of operator() on: o is
\* what the call left behind; err is the filter whose name goes into filter_with_error
base_process_result(S, i, o) ==
    LET S1 == [S EXCEPT !.mem = o.mem, !.fst[i] = o.fst, !.ovf = @ \/ o.ovf]
    IN  IF is_aborted(o.r) THEN ProcessOut(S1, o.in, o.out, o.r, i)
        ELSE IF Live(o.in) THEN ProcessOut(S1, o.in, o.out, FORCE_TO_KEEP_PROCESSING, 0)
        ELSE ProcessOut(S1, o.in, o.out, o.r, 0)

\* base_class::process of the filter ch[i] (every built-in filter is ONLY_VALID)
base_process(ch, i, S, in, out) ==
    IF ~Live(in) \/ Live(out) THEN ProcessOut(S, in, out, CONTINUE, 0)
    ELSE base_process_result(S, i,
            filter_call(ch[i], S.best[i].out, S.mem, S.fst[i], in, out))

\* chained::process of node k: the return value when neither half aborted
chained_result(S, k, in, out) ==
    ProcessOut(S, in, out,
               IF FORCE_TO_KEEP_PROCESSING \in {S.f1_result[k], S.f2_result[k]}
               THEN FORCE_TO_KEEP_PROCESSING ELSE CONTINUE, 0)

\* chained::process of node k: after f2_result = f2.process(mid, output) gave P2
chained_after_f2(k, P2, in) ==
    LET S2 == [P2.S EXCEPT !.mid[k] = P2.in, !.f2_result[k] = P2.r]
    IN  IF is_aborted(P2.r) THEN ProcessOut(S2, in, P2.out, P2.r, P2.err)
        ELSE chained_result(S2, k, in, P2.out)

\* chained::process of node k: the second if
chained_f2(ch, k, S, in, out) ==
    IF ~Live(out) /\ (Live(S.mid[k]) \/ S.f2_result[k] = FORCE_TO_KEEP_PROCESSING)
    THEN chained_after_f2(k, base_process(ch, k, S, S.mid[k], out), in)
    ELSE chained_result(S, k, in, out)

\* chained::process of node k: after f1_result = f1.process(input, mid) gave P1
chained_after_f1(ch, k, P1, out) ==
    LET S1 == [P1.S EXCEPT !.mid[k] = P1.out, !.f1_result[k] = P1.r]
    IN  IF is_aborted(P1.r) THEN ProcessOut(S1, P1.in, out, P1.r, P1.err)
        ELSE chained_f2(ch, k, S1, P1.in, out)

\* chained::process of node k; f1 is a chain itself, hence ALLOW_EMPTY, when k > 2
RECURSIVE chained_process(_, _, _, _, _)
chained_process(ch, k, S, in, out) ==
    IF k = 1 THEN base_process(ch, 1, S, in, out)
    ELSE IF /\ S.f2_result[k] # FORCE_TO_KEEP_PROCESSING
            /\ ~Live(S.mid[k])
            /\ (k - 1 >= 2 \/ Live(in) \/ S.f1_result[k] = FORCE_TO_KEEP_PROCESSING)
    THEN chained_after_f1(ch, k, chained_process(ch, k - 1, S, in, S.mid[k]), out)
    ELSE chained_f2(ch, k, S, in, out)

\* abstract::process of the whole chain
filter_process(ch, S, in, out) == chained_process(ch, Len(ch), S, in, out)

\* base_class::select_best_storage_forward_pass of the filter ch[i]
base_forward_pass(f, i, m, last_node_output) ==
    LET reuse == last_node_output # nullptr /\ m[last_node_output].max_size >= max_packet_size
    IN  IF restrict_storage(f) = ALLOW_REUSE_OF_INPUT_MEMORY_AS_OUTPUT
        THEN IF reuse THEN [in |-> last_node_output, out |-> last_node_output]
             ELSE [in |-> local_input_storage(i), out |-> local_input_storage(i)]
        ELSE IF reuse THEN [in |-> last_node_output, out |-> local_output_storage(i)]
             ELSE [in |-> local_input_storage(i), out |-> local_output_storage(i)]

\* select_best_storage_forward_pass(prior) of node n: the best storages of ch[1..n]
RECURSIVE select_best_storage_forward_pass(_, _, _, _)
select_best_storage_forward_pass(ch, m, prior, n) ==
    IF n = 0 THEN << >>
    ELSE LET b == select_best_storage_forward_pass(ch, m, prior, n - 1)
         IN  Append(b, base_forward_pass(ch[n], n, m, IF n = 1 THEN prior ELSE b[n - 1].out))

\* a backward pass that keeps the storages chosen by the forward pass
base_backwards_pass_Keep(f, b, next) == b

\* base_class::select_best_storage_backwards_pass
base_backwards_pass(f, b, next) ==
    IF next = nullptr THEN b
    ELSE IF restrict_storage(f) = ALLOW_REUSE_OF_INPUT_MEMORY_AS_OUTPUT
    THEN [in |-> next, out |-> next]
    ELSE [in |-> b.in, out |-> next]

\* select_best_storage_backwards_pass(next) of node k
RECURSIVE select_best_storage_backwards_pass(_, _, _, _)
select_best_storage_backwards_pass(ch, best, next, k) ==
    LET b1 == [best EXCEPT ![k] = base_backwards_pass(ch[k], best[k], next)]
    IN  IF k > 1 /\ b1[k].in = next
        THEN select_best_storage_backwards_pass(ch, b1, next, k - 1)
        ELSE b1

\* the arrays a chain of n filters owns, and the two of the external ops
StorageIds(n) ==
    { local_input_storage(i) : i \in 1..n } \cup { local_output_storage(i) : i \in 1..n }
        \cup { user_rx_data, user_tx_data }

\* abstract::reset_all of the whole chain, after the forward pass the processor
\* runs just before it
chain_reset_all(ch, S) ==
    [S EXCEPT !.fst = [i \in 1..Len(ch) |-> FilterReset(ch[i])],
              !.mem = [s \in DOMAIN S.mem |->
                          IF s[1] \in {"local_input_storage", "local_output_storage"}
                          THEN [S.mem[s] EXCEPT !.size = 0] ELSE S.mem[s]],
              !.mid = [i \in 1..Len(ch) |-> NoData],
              !.f1_result = [i \in 1..Len(ch) |-> CONTINUE],
              !.f2_result = [i \in 1..Len(ch) |-> CONTINUE]]

\* ------------------------------------------------------------------ filter_processor
FILTER_ABORT                   == "FILTER_ABORT"
FILTER_ABORT_EXCEEDED_STORAGE  == "FILTER_ABORT_EXCEEDED_STORAGE"
FILTER_ABORT_DATA_FORMAT_ERROR == "FILTER_ABORT_DATA_FORMAT_ERROR"
FILTER_OUTPUT_SIZE_OVER_RX_MAX == "FILTER_OUTPUT_SIZE_OVER_RX_MAX"
FILTER_STORAGE_NOT_CONSUMED    == "FILTER_STORAGE_NOT_CONSUMED"

\* yield_e
DONE_UNTIL_NEXT_INPUT == "DONE_UNTIL_NEXT_INPUT"
YIELD_ONE_OUTPUT      == "YIELD_ONE_OUTPUT"

\* p_filter->get_name() of the installed filter: the name of the whole chain when
\* it has more than one filter, else the filter's own name; a filter's name is
\* given as its place in the chain
ChainName == 0
get_name(ch) == IF Len(ch) > 1 THEN ChainName ELSE 1

\* the members of a processor the passes work on: the chain's state S, input_data,
\* output_data, result
Proc(S, in, out, r) == [S |-> S, in |-> in, out |-> out, result |-> r]

\* a chain that has just been constructed and installed
FreshChain(ch) ==
    LET m == [s \in StorageIds(Len(ch)) |->
                 IF s[1] \in {"local_input_storage", "local_output_storage"}
                 THEN storage_t(max_packet_size) ELSE storage_t(0)]
    IN  [mem |-> m,
         fst |-> [i \in 1..Len(ch) |-> FilterReset(ch[i])],
         best |-> select_best_storage_forward_pass(ch, m, nullptr, Len(ch)),
         mid |-> [i \in 1..Len(ch) |-> NoData],
         f1_result |-> [i \in 1..Len(ch) |-> CONTINUE],
         f2_result |-> [i \in 1..Len(ch) |-> CONTINUE],
         ovf |-> FALSE]

\* filter_processor::reset_all; op_specific_data = {} also forgets the user's buffer
filter_reset_all(ch, S) ==
    LET S1 == [S EXCEPT !.best = select_best_storage_forward_pass(ch, S.mem, nullptr, Len(ch))]
        S2 == chain_reset_all(ch, S1)
    IN  Proc([S2 EXCEPT !.mem[user_rx_data].max_size = 0, !.mem[user_rx_data].size = 0],
             NoData, NoData, CONTINUE)

\* what yield_next hands back: the members, the yield_e value, the filter named in
\* last_error_location, and the result_e the chain's process returned last
Yield(P, y, loc, ret) == [P |-> P, y |-> y, loc |-> loc, returned |-> ret]

\* the yield_e an aborted pass ends with, told from the member result as it is
\* after reset_all
AbortYield(r) ==
    IF r = ABORT_EXCEEDED_STORAGE THEN ABORT_EXCEEDED_STORAGE
    ELSE IF r = ABORT_DATA_FORMAT_ERROR THEN ABORT_DATA_FORMAT_ERROR
    ELSE ABORT

\* yield_next after an abort: reset_all has run (Z), loc was saved before it
yield_aborted(Z, R) == Yield(Z, AbortYield(Z.result), R.err, R.r)

\* the do-while loop of yield_next, R being what p_filter->process returned
RECURSIVE yield_loop(_, _)
yield_after_process(ch, R) ==
    IF is_aborted(R.r) THEN yield_aborted(filter_reset_all(ch, R.S), R)
    ELSE IF Live(R.out) THEN Yield(Proc(R.S, R.in, R.out, R.r), YIELD_ONE_OUTPUT, 0, R.r)
    ELSE IF R.r = FORCE_TO_KEEP_PROCESSING THEN yield_loop(ch, Proc(R.S, R.in, R.out, R.r))
    ELSE Yield(Proc(R.S, R.in, R.out, R.r), DONE_UNTIL_NEXT_INPUT, 0, R.r)

yield_loop(ch, P) == yield_after_process(ch, filter_process(ch, P.S, P.in, P.out))

\* filter_processor::yield_next
yield_next(ch, P) ==
    IF P.result = CONTINUE /\ ~Live(P.in)
    THEN Yield(P, DONE_UNTIL_NEXT_INPUT, 0, CONTINUE)
    ELSE yield_loop(ch, P)

\* the status an external op ends with after an abort
error_status(y) ==
    IF y = ABORT_EXCEEDED_STORAGE THEN FILTER_ABORT_EXCEEDED_STORAGE
    ELSE IF y = ABORT_DATA_FORMAT_ERROR THEN FILTER_ABORT_DATA_FORMAT_ERROR
    ELSE FILTER_ABORT

\* ------------------------------------------------------------------ the pipeline
\* what the filters are tried on
Filters ==
    { forward_by_copy, forward_by_pointing, data_append(<< 1 >>), enforce_fixed_size(2),
      split_if_larger(1), data_delimit(<< transposed_frame_end >>), repeat(2),
      slip_encode(FALSE), slip_decode(FALSE) }

\* the chains installed: one filter, or a.chain(b)
Chains == { << f >> : f \in Filters } \cup { << f, g >> : f, g \in Filters }

\* the messages the user sends and the transport delivers
Messages == UNION { [1..n -> Bytes] : n \in 1..MaxMessage }

\* the capacities of the buffers the user passes to receive
Capacities == { 1, max_packet_size }

\* send_op and recv_op: status, the data pointer (send_data or received_data), the
\* size (send_size or received_size) and max_receive_size; a null op pointer is NoOp
NoOp == [status |-> NULL, st |-> nullptr, off |-> 0, size |-> 0, max |-> 0]
Present(o) == o.status # NULL

NoEnd ==
    [status |-> "none", info |-> 0, size |-> 0, cap |-> 0, copied |-> FALSE,
     returned |-> CONTINUE, bytes |-> << >>]

\* the state of a processor right after replace_filter(ch)
FilterInstalled(ch, sending) ==
    /\ p_filter = ch
    /\ is_sending = sending
    /\ flt = FreshChain(ch)
    /\ input_data = NoData
    /\ output_data = NoData
    /\ result = CONTINUE
    /\ filter_ext_op = NoOp
    /\ filter_int_op = NoOp
    /\ fed = << >>
    /\ delivered = << >>
    /\ last_end = NoEnd
    /\ fcount = [calls |-> 0, chunks |-> 0]

FilterInit ==
    /\ DispatcherInit
    /\ NoOpenArgs
    /\ \E ch \in Chains, sending \in BOOLEAN : FilterInstalled(ch, sending)

\* the members of the processor as one record
ProcNow == Proc(flt, input_data, output_data, result)

\* the external op is left in place, the processor's members change
Goes(P, int) ==
    /\ flt' = P.S
    /\ input_data' = P.in
    /\ output_data' = P.out
    /\ result' = P.result
    /\ filter_int_op' = int
    /\ filter_ext_op' = [filter_ext_op EXCEPT !.status = OP_IN_PROGRESS]
    /\ UNCHANGED << fed, delivered, last_end >>

\* the external op ends: ext_p_*_op = nullptr after its status is set
Ends(P, status, info, size, copied, ret) ==
    /\ flt' = P.S
    /\ input_data' = P.in
    /\ output_data' = P.out
    /\ result' = P.result
    /\ filter_int_op' = NoOp
    /\ filter_ext_op' = NoOp
    /\ last_end' = [status |-> status, info |-> info, size |-> size,
                    cap |-> filter_ext_op.max, copied |-> copied, returned |-> ret,
                    bytes |-> IF is_sending \/ status # SUCCESS THEN << >>
                              ELSE [i \in 1..Min(size, filter_ext_op.max) |->
                                       P.S.mem[user_rx_data].data[i]]]
    /\ IF status # SUCCESS THEN fed' = << >> /\ delivered' = << >>
       ELSE /\ fed' = fed
            /\ delivered' = IF is_sending THEN delivered ELSE Append(delivered, last_end'.bytes)

\* send(data, size) is called and its op reaches the processor
UserSend(msg) ==
    /\ is_sending
    /\ ~Present(filter_ext_op)
    /\ fcount.calls < MaxFilterCalls
    /\ fcount' = [fcount EXCEPT !.calls = @ + 1]
    /\ filter_ext_op' = [status |-> START_NEW_OP, st |-> user_tx_data, off |-> 0, size |-> Len(msg), max |-> 0]
    /\ flt' = [flt EXCEPT !.mem =
                 [WriteAt(flt.mem, user_tx_data, 0, msg) EXCEPT
                     ![user_tx_data].max_size = Len(msg), ![user_tx_data].size = Len(msg)]]
    /\ fed' = Append(fed, msg)
    /\ UNCHANGED << p_filter, is_sending, input_data, output_data, result, filter_int_op,
                    delivered, last_end >>
    /\ UNCHANGED << dvars, ovars >>

\* receive(data, size) is called with a buffer of capacity cap and its op reaches
\* the processor
UserReceive(cap) ==
    /\ ~is_sending
    /\ ~Present(filter_ext_op)
    /\ fcount.calls < MaxFilterCalls
    /\ fcount' = [fcount EXCEPT !.calls = @ + 1]
    /\ filter_ext_op' = [status |-> START_NEW_OP, st |-> user_rx_data, off |-> 0, size |-> 0, max |-> cap]
    /\ flt' = [flt EXCEPT !.mem[user_rx_data].data = Zeros]
    /\ UNCHANGED << p_filter, is_sending, input_data, output_data, result, filter_int_op,
                    fed, delivered, last_end >>
    /\ UNCHANGED << dvars, ovars >>

\* the internal op the processor has handed to the transport is being worked on
InternalOperating == Present(filter_int_op) /\ filter_int_op.status = START_NEW_OP

\* process_sending_filter from the return of yield_next on
sending_after_yield(Y) ==
    LET output_storage == Y.P.S.best[Len(p_filter)].out
    IN  CASE Y.y = YIELD_ONE_OUTPUT ->
               IF Y.P.out.st = output_storage /\ Y.P.out.off = 0
                     /\ Y.P.S.mem[output_storage].size > 0
               THEN Ends(filter_reset_all(p_filter, Y.P.S), FILTER_STORAGE_NOT_CONSUMED,
                         get_name(p_filter), 0, FALSE, Y.returned)
               ELSE Goes(Y.P, [status |-> START_NEW_OP, st |-> Y.P.out.st,
                               off |-> Y.P.out.off, size |-> Y.P.out.size, max |-> 0])
          [] Y.y = DONE_UNTIL_NEXT_INPUT ->
               Ends(Y.P, SUCCESS, 0, filter_ext_op.size, FALSE, Y.returned)
          [] OTHER ->
               Ends(Y.P, error_status(Y.y), Y.loc, 0, FALSE, Y.returned)

\* filter_processor::process_sending_filter, called by single_operation
process_sending_filter ==
    /\ is_sending
    /\ Present(filter_ext_op)
    /\ ~InternalOperating
    /\ IF Present(filter_int_op) /\ filter_int_op.status # SUCCESS
       THEN Ends(filter_reset_all(p_filter, flt), filter_int_op.status, 0, 0, FALSE, CONTINUE)
       ELSE sending_after_yield(yield_next(p_filter,
               Proc(flt,
                    IF filter_ext_op.status = START_NEW_OP /\ ~Live(input_data)
                    THEN Norm([st |-> filter_ext_op.st, off |-> 0, size |-> filter_ext_op.size])
                    ELSE input_data,
                    IF Present(filter_int_op) THEN NoData ELSE output_data,
                    result)))
    /\ UNCHANGED << p_filter, is_sending, fcount >>
    /\ UNCHANGED << dvars, ovars >>

\* select_best_storage_forward_pass(nullptr) on the chain in state S
flushed(S) ==
    [S EXCEPT !.best = select_best_storage_forward_pass(p_filter, S.mem, nullptr, Len(p_filter))]

\* a processor that leaves received_data as it is
copy_to_user_Nothing(S, out) == S

\* the output copied to the external op's received_data
copy_to_user(S, out) ==
    [S EXCEPT !.mem = WriteAt(@, user_rx_data, 0, Content(@, out))]

\* process_receiving_filter from the return of yield_next on
receiving_after_yield(Y) ==
    LET out == Y.P.out
        in_place == out.st = filter_ext_op.st /\ out.off = 0
        starting_rx_storage == Y.P.S.best[1].in
    IN  CASE Y.y = YIELD_ONE_OUTPUT ->
               IF ~in_place /\ out.size > filter_ext_op.max
               THEN Ends(filter_reset_all(p_filter, Y.P.S), FILTER_OUTPUT_SIZE_OVER_RX_MAX,
                         get_name(p_filter), 0, FALSE, Y.returned)
               ELSE Ends(Proc(flushed(IF in_place THEN Y.P.S ELSE copy_to_user(Y.P.S, out)),
                              Y.P.in, NoData, Y.P.result),
                         SUCCESS, 0, out.size, ~in_place, Y.returned)
          [] Y.y = DONE_UNTIL_NEXT_INPUT ->
               IF Y.P.S.mem[starting_rx_storage].size > 0
               THEN Ends(filter_reset_all(p_filter, Y.P.S), FILTER_STORAGE_NOT_CONSUMED,
                         get_name(p_filter), 0, FALSE, Y.returned)
               ELSE Goes(Y.P, [status |-> START_NEW_OP, st |-> starting_rx_storage,
                               off |-> 0, size |-> 0,
                               max |-> Y.P.S.mem[starting_rx_storage].max_size])
          [] OTHER ->
               Ends(Y.P, error_status(Y.y), Y.loc, 0, FALSE, Y.returned)

\* process_receiving_filter: a new external op is taken in; best1 is what the
\* backwards pass from user_rx_data leaves
receive_new_op(S, best1) ==
    [S EXCEPT !.mem = [@ EXCEPT ![user_rx_data].max_size = filter_ext_op.max,
                                ![user_rx_data].size = 0,
                                ![best1[1].in].size = 0],
              !.best = best1]

\* filter_processor::process_receiving_filter, called by single_operation
process_receiving_filter ==
    /\ ~is_sending
    /\ Present(filter_ext_op)
    /\ ~InternalOperating
    /\ IF Present(filter_int_op) /\ filter_int_op.status # SUCCESS
       THEN Ends(filter_reset_all(p_filter, flt), filter_int_op.status, 0, 0, FALSE, CONTINUE)
       ELSE receiving_after_yield(yield_next(p_filter,
               Proc(IF filter_ext_op.status = START_NEW_OP
                    THEN receive_new_op(flt, select_best_storage_backwards_pass(
                                                p_filter, flt.best, user_rx_data, Len(p_filter)))
                    ELSE flt,
                    IF Present(filter_int_op)
                    THEN Norm([st |-> filter_int_op.st, off |-> 0, size |-> filter_int_op.size])
                    ELSE input_data,
                    output_data, result)))
    /\ UNCHANGED << p_filter, is_sending, fcount >>
    /\ UNCHANGED << dvars, ovars >>

\* the transport's process_send_receive serves the internal send: the bytes go
\* out, or the send fails
TransportSend ==
    /\ is_sending
    /\ InternalOperating
    /\ \E status \in {SUCCESS, ERROR_CODE} :
          /\ filter_int_op' = [filter_int_op EXCEPT !.status = status]
          /\ delivered' = IF status = SUCCESS
                          THEN Append(delivered, Content(flt.mem, filter_int_op))
                          ELSE delivered
    /\ UNCHANGED << p_filter, is_sending, flt, input_data, output_data, result,
                    filter_ext_op, fed, last_end, fcount >>
    /\ UNCHANGED << dvars, ovars >>

\* the transport's process_send_receive serves the internal receive: a message of
\* at most max_receive_size bytes is written to received_data, or the receive fails
TransportReceive ==
    /\ ~is_sending
    /\ InternalOperating
    /\ \/ /\ fcount.chunks < MaxChunks
          /\ \E msg \in Messages :
                /\ Len(msg) <= filter_int_op.max
                /\ filter_int_op' = [filter_int_op EXCEPT !.status = SUCCESS, !.size = Len(msg)]
                /\ flt' = [flt EXCEPT !.mem = WriteAt(@, filter_int_op.st, 0, msg)]
                /\ fed' = Append(fed, msg)
          /\ fcount' = [fcount EXCEPT !.chunks = @ + 1]
       \/ /\ filter_int_op' = [filter_int_op EXCEPT !.status = ERROR_CODE]
          /\ UNCHANGED << flt, fed, fcount >>
    /\ UNCHANGED << p_filter, is_sending, input_data, output_data, result,
                    filter_ext_op, delivered, last_end >>
    /\ UNCHANGED << dvars, ovars >>

FilterNext ==
    \/ \E msg \in Messages : UserSend(msg)
    \/ \E cap \in Capacities : UserReceive(cap)
    \/ process_sending_filter
    \/ process_receiving_filter
    \/ TransportSend
    \/ TransportReceive

FilterSpec == FilterInit /\ [][FilterNext]_vars

\* ------------------------------------------------------------------ the filters one after another
\* Each filter as a function from the messages it is given, in order, to the messages
\* it puts out, in order, on arrays of its own that are as large as needed: what
\* operator() of the filter computes, with base_class::process calling it again
\* while input is left.  A filter's memory between messages is the bytes it has
\* gathered (buf) and its members.
RefInit(f) ==
    [buf |-> << >>, matched |-> 0, in_escape |-> FALSE,
     need_first |-> (f.kind = "slip::decode" /\ f.flag), outs |-> << >>, bad |-> FALSE]

\* the pieces of at most n bytes a message is cut into
RECURSIVE Pieces(_, _)
Pieces(msg, n) ==
    IF Len(msg) = 0 THEN << >>
    ELSE IF Len(msg) <= n THEN << msg >>
    ELSE << SubSeq(msg, 1, n) >> \o Pieces(SubSeq(msg, n + 1, Len(msg)), n)

\* slip::encode of a message
RECURSIVE Escaped(_)
Escaped(msg) ==
    IF Len(msg) = 0 THEN << >>
    ELSE (IF Head(msg) = frame_end THEN << frame_escape, transposed_frame_end >>
          ELSE IF Head(msg) = frame_escape THEN << frame_escape, transposed_frame_escape >>
          ELSE << Head(msg) >>) \o Escaped(Tail(msg))
Encoded(msg, prefix) ==
    (IF prefix THEN << frame_end >> ELSE << >>) \o Escaped(msg) \o << frame_end >>

\* one byte given to data_delimit
RefDelimitByte(f, r, b) ==
    LET hit == b = f.bytes[r.matched + 1]
    IN  IF hit /\ r.matched + 1 >= Len(f.bytes)
        THEN LET msg == SubSeq(r.buf, 1, Len(r.buf) - (Len(f.bytes) - 1))
             IN  [r EXCEPT !.buf = << >>, !.matched = 0,
                           !.outs = IF Len(msg) > 0 THEN Append(@, msg) ELSE @]
        ELSE [r EXCEPT !.buf = Append(@, b), !.matched = IF hit THEN @ + 1 ELSE 0]

\* one byte given to slip::decode; bad: the byte is no valid escape
RefDecodeByte(f, r, b) ==
    IF r.need_first THEN [r EXCEPT !.need_first = b # frame_end]
    ELSE IF r.in_escape
    THEN IF b = transposed_frame_end
         THEN [r EXCEPT !.in_escape = FALSE, !.buf = Append(@, frame_end)]
         ELSE IF b = transposed_frame_escape
         THEN [r EXCEPT !.in_escape = FALSE, !.buf = Append(@, frame_escape)]
         ELSE [r EXCEPT !.in_escape = FALSE, !.bad = TRUE]
    ELSE IF b = frame_end
    THEN IF Len(r.buf) > 0 THEN [r EXCEPT !.buf = << >>, !.outs = Append(@, r.buf)] ELSE r
    ELSE IF b = frame_escape THEN [r EXCEPT !.in_escape = TRUE]
    ELSE [r EXCEPT !.buf = Append(@, b)]

RECURSIVE RefBytes(_, _, _)
RefBytes(f, r, msg) ==
    IF Len(msg) = 0 \/ r.bad THEN r
    ELSE RefBytes(f, IF f.kind = "data_delimit" THEN RefDelimitByte(f, r, Head(msg))
                     ELSE RefDecodeByte(f, r, Head(msg)), Tail(msg))

\* enforce_fixed_size: full messages of n bytes taken off the gathered bytes
RECURSIVE RefFixed(_, _)
RefFixed(r, n) ==
    IF Len(r.buf) < n THEN r
    ELSE RefFixed([r EXCEPT !.buf = SubSeq(@, n + 1, Len(@)),
                            !.outs = Append(@, SubSeq(r.buf, 1, n))], n)

\* one message given to the filter f
RefMessage(f, r, msg) ==
    CASE f.kind \in {"forward_by_copy", "forward_by_pointing"} ->
            [r EXCEPT !.outs = Append(@, msg)]
      [] f.kind = "data_append" -> [r EXCEPT !.outs = Append(@, msg \o f.bytes)]
      [] f.kind = "enforce_fixed_size" -> RefFixed([r EXCEPT !.buf = @ \o msg], f.n)
      [] f.kind = "split_if_larger" -> [r EXCEPT !.outs = @ \o Pieces(msg, f.n)]
      [] f.kind = "repeat" ->
            [r EXCEPT !.outs = @ \o [i \in 1..f.n |-> msg]]
      [] f.kind = "slip::encode" -> [r EXCEPT !.outs = Append(@, Encoded(msg, f.flag))]
      [] f.kind \in {"data_delimit", "slip::decode"} -> RefBytes(f, r, msg)

\* the messages msgs given to the filter f one after another
RECURSIVE RefFilter(_, _, _)
RefFilter(f, r, msgs) ==
    IF Len(msgs) = 0 \/ r.bad THEN r
    ELSE RefFilter(f, RefMessage(f, r, Head(msgs)), Tail(msgs))

\* the messages msgs given to the filters ch[1], ..., ch[n] one after another
RECURSIVE RefChain(_, _, _)
RefChain(ch, n, msgs) ==
    IF n = 0 THEN msgs
    ELSE RefFilter(ch[n], RefInit(ch[n]), RefChain(ch, n - 1, msgs)).outs

IsPrefix(s, t) == Len(s) <= Len(t) /\ SubSeq(t, 1, Len(s)) = s

\* the messages handed on so far are the first of ref, and all of ref once an
\* external send has ended or the receive chain asks the transport for input
DeliveredAsRef(ref) ==
    /\ IsPrefix(delivered, ref)
    /\ (is_sending /\ ~Present(filter_ext_op) => delivered = ref)
    /\ (~is_sending /\ InternalOperating => delivered = ref)

\* C25: the messages a chain hands to the transport (send side) or to the user
\* (receive side) are, in bytes, order and number, those the filters give when they
\* are applied one after another on arrays of their own.
C25_ChainEqualsFiltersInTurn == DeliveredAsRef(RefChain(p_filter, Len(p_filter), fed))

\* what the receive chain gives from the input received so far, and whether the
\* user has not been handed all of it yet
RefNow == RefChain(p_filter, Len(p_filter), fed)
OutputsPending(ref) == Len(delivered) < Len(ref)

\* a pass of process_receiving_filter
ReceivePass == ~is_sending /\ Present(filter_ext_op) /\ ~InternalOperating /\ flt' # flt

\* the external op ends in this step
ExtEnds == Present(filter_ext_op) /\ ~Present(filter_ext_op')

AbortStatuses == { FILTER_ABORT, FILTER_ABORT_EXCEEDED_STORAGE, FILTER_ABORT_DATA_FORMAT_ERROR }

\* the pass hands the user the next of the outputs ref, with SUCCESS, and asks the
\* transport for nothing
HandsOverNext(ref) ==
    /\ ExtEnds
    /\ last_end'.status = SUCCESS
    /\ last_end'.size = Len(last_end'.bytes)
    /\ delivered' = Append(delivered, ref[Len(delivered) + 1])
    /\ ~InternalOperating'

\* while outputs of the input received so far are left, a pass for a receive call
\* hands over the next one (unless a filter aborts), and the transport is asked for
\* more only when none is left and the chain holds no input
C26_NextOutputs(ref) ==
    /\ (ReceivePass /\ OutputsPending(ref)) =>
          (HandsOverNext(ref) \/ (ExtEnds /\ last_end'.status \in AbortStatuses))
    /\ (ReceivePass /\ InternalOperating') =>
          (~OutputsPending(ref) /\ ~Live(input_data') /\ result' = CONTINUE
             /\ \A i \in 1..Len(p_filter) : ~Live(flt'.mid[i]))

\* C26 (as stated): the k outputs the chain gives from one internal receive are
\* returned by the next k receive calls, in order and each with Success, and no
\* further internal receive is issued before the chain has consumed its input.
C26_BufferedOutputsFirst == [][C26_NextOutputs(RefNow)]_vars

\* the next output is larger than the buffer of the receive call
OutputOverCapacity(ref) ==
    OutputsPending(ref) /\ Len(ref[Len(delivered) + 1]) > filter_ext_op.max

\* no filter has written past the end of an array: by then some receive call had a
\* buffer without room for the output it was to return
NoOverflowYet == ~flt.ovf

\* C26 (amended): the same as long as the buffer of every receive call has room for
\* the output the call is to return.
C26_BufferedOutputsFirstWhenFitting ==
    [][(NoOverflowYet' /\ ~OutputOverCapacity(RefNow)) => C26_NextOutputs(RefNow)]_vars

\* two receive calls have been handed the two outputs of one internal receive
C26_Witness ==
    /\ ~is_sending
    /\ Len(fed) = 1
    /\ Len(delivered) = 2
    /\ Len(delivered[1]) > 1
    /\ delivered = RefNow
    /\ last_end.status = SUCCESS
    /\ NoOverflowYet

\* filter_processor::reset_all has run
IsReset ==
    /\ input_data = NoData /\ output_data = NoData /\ result = CONTINUE
    /\ flt.fst = [i \in 1..Len(p_filter) |-> FilterReset(p_filter[i])]
    /\ \A i \in 1..Len(p_filter) : ~Live(flt.mid[i])
C28_Ends(ref) ==
    (ReceivePass /\ ExtEnds /\ OutputOverCapacity(ref)) =>
        (last_end'.status = FILTER_OUTPUT_SIZE_OVER_RX_MAX /\ IsReset')

\* C28: a receive for which the chain's next output is larger than the capacity of
\* the buffer ends with FILTER_OUTPUT_SIZE_OVER_RX_MAX and with the processor reset.
C28_OverRxMaxAndReset == [][C28_Ends(RefNow)]_vars

\* the status that stands for each kind of abort
StatusOfAbort(r) ==
    CASE r = ABORT_EXCEEDED_STORAGE  -> FILTER_ABORT_EXCEEDED_STORAGE
      [] r = ABORT_DATA_FORMAT_ERROR -> FILTER_ABORT_DATA_FORMAT_ERROR
      [] OTHER                       -> FILTER_ABORT

\* C29: an external op that ends because a filter aborted has the status of the
\* kind of abort the filter returned, and names that filter.
C29_AbortKindKept ==
    is_aborted(last_end.returned) =>
        (last_end.status = StatusOfAbort(last_end.returned) /\ last_end.info \in 1..Len(p_filter))

\* a receive into a buffer of at least max_packet_size bytes that ends with Success
\* had nothing copied into that buffer by the processor
TailInPlace == (~is_sending /\ last_end.status = SUCCESS /\ last_end.cap >= max_packet_size)
                  => ~last_end.copied

RECURSIVE OutputPointsAtInput(_, _)
OutputPointsAtInput(ch, n) ==
    /\ n >= 1
    /\ \/ ch[n].kind = "repeat"
       \/ (ch[n].kind = "forward_by_pointing" /\ OutputPointsAtInput(ch, n - 1))

SlipBytes == { 1, frame_end, frame_escape }
SlipSequences == UNION { [1..n -> SlipBytes] : n \in 0..max_packet_size }
SlipLists == UNION { [1..n -> SlipSequences] : n \in 1..MaxFrames }

\* the line the encoder's outputs are put on, one after another
wire == << "wire", 0 >>
WireSize == MaxFrames * (2 * max_packet_size + 2)

\* an encoder and a decoder, each on arrays of its own, and the sequences to encode
SlipInit ==
    /\ DispatcherInit
    /\ NoOpenArgs
    /\ \E prefix \in BOOLEAN, wait \in BOOLEAN :
          p_filter = << slip_encode(prefix), slip_decode(wait) >>
    /\ is_sending = TRUE
    /\ fed \in SlipLists
    /\ flt = [FreshChain(p_filter) EXCEPT
                !.mem = [s \in DOMAIN @ \cup { wire } |->
                            IF s = wire THEN [max_size |-> WireSize, size |-> 0,
                                              data |-> [i \in 1..WireSize |-> 0]]
                            ELSE @[s]],
                !.best = [i \in 1..2 |-> base_forward_pass(p_filter[i], i, @, nullptr)]]
    /\ input_data = NoData
    /\ output_data = NoData
    /\ result = CONTINUE
    /\ filter_ext_op = NoOp
    /\ filter_int_op = NoOp
    /\ delivered = << >>
    /\ last_end = NoEnd
    /\ fcount = [calls |-> 0, chunks |-> 0]

\* the encoder's process has returned P: its output goes on the line
SlipEncoded(P) ==
    /\ flt' = [P.S EXCEPT !.mem = [WriteAt(@, wire, @[wire].size, Content(@, P.out))
                                      EXCEPT ![wire].size = @ + P.out.size]]
    /\ last_end' = [last_end EXCEPT !.returned = P.r]

\* the next sequence is given to slip::encode
SlipEncode ==
    /\ fcount.chunks = 0
    /\ fcount.calls < Len(fed)
    /\ ~is_aborted(last_end.returned)
    /\ fcount' = [fcount EXCEPT !.calls = @ + 1]
    /\ SlipEncoded(base_process(p_filter, 1,
          [flt EXCEPT !.mem = WriteAt(@, user_tx_data, 0, fed[fcount.calls + 1])],
          Norm([st |-> user_tx_data, off |-> 0, size |-> Len(fed[fcount.calls + 1])]),
          NoData))
    /\ UNCHANGED << p_filter, is_sending, input_data, output_data, result, filter_ext_op,
                    filter_int_op, fed, delivered >>
    /\ UNCHANGED << dvars, ovars >>

\* all sequences are encoded: what is on the line is given to slip::decode
SlipFeed ==
    /\ fcount.chunks = 0
    /\ fcount.calls = Len(fed)
    /\ ~is_aborted(last_end.returned)
    /\ fcount' = [fcount EXCEPT !.chunks = 1]
    /\ input_data' = Norm([st |-> wire, off |-> 0, size |-> flt.mem[wire].size])
    /\ UNCHANGED << p_filter, is_sending, flt, output_data, result, filter_ext_op,
                    filter_int_op, fed, delivered, last_end >>
    /\ UNCHANGED << dvars, ovars >>

\* the decoder's process has returned P
SlipDecoded(P) ==
    /\ flt' = P.S
    /\ input_data' = P.in
    /\ result' = P.r
    /\ delivered' = IF Live(P.out) THEN Append(delivered, Content(P.S.mem, P.out))
                    ELSE delivered
    /\ last_end' = [last_end EXCEPT !.returned = P.r]

\* slip::decode is called on what is left of the line
SlipDecode ==
    /\ fcount.chunks = 1
    /\ Live(input_data)
    /\ ~is_aborted(last_end.returned)
    /\ SlipDecoded(base_process(p_filter, 2, flt, input_data, NoData))
    /\ UNCHANGED << p_filter, is_sending, output_data, filter_ext_op, filter_int_op,
                    fed, fcount >>
    /\ UNCHANGED << dvars, ovars >>

SlipNext == SlipEncode \/ SlipFeed \/ SlipDecode

SlipSpec == SlipInit /\ [][SlipNext]_vars

\* nothing is left to do: a filter aborted, or the decoder has taken the whole line
SlipDone ==
    \/ is_aborted(last_end.returned)
    \/ (fcount.chunks = 1 /\ ~Live(input_data))

\* C27 (as stated): the decoder gives back exactly the sequences encoded, in order
C27_SlipRoundTrip ==
    (p_filter[1].kind = "slip::encode" /\ SlipDone) =>
        (~is_aborted(last_end.returned) /\ delivered = fed)

\* slip::encode has room for the sequence: one byte per byte, one more per frame_end
\* or frame_escape byte, the closing frame_end and the prefixed one
Encodable(msg, prefix) ==
    Len(msg) + Cardinality({ i \in 1..Len(msg) : msg[i] \in {frame_end, frame_escape} })
        + 1 + (IF prefix THEN 1 ELSE 0) <= max_packet_size

\* C27 (amended): the same for sequences that are not empty and that slip::encode
\* has room for, and for a decoder that waits for a first frame_end only behind an
\* encoder that prefixes one
C27_SlipRoundTripWhenEncodable ==
    (/\ p_filter[1].kind = "slip::encode"
     /\ SlipDone
     /\ \A i \in 1..Len(fed) : Len(fed[i]) > 0 /\ Encodable(fed[i], p_filter[1].flag)
     /\ (p_filter[2].flag => p_filter[1].flag))
        => (~is_aborted(last_end.returned) /\ delivered = fed)

C27_Witness ==
    /\ p_filter[1].kind = "slip::encode"
    /\ SlipDone
    /\ Len(fed) = 2
    /\ \E i \in 1..Len(fed[1]) : fed[1][i] = frame_end
    /\ \E i \in 1..Len(fed[2]) : fed[2][i] = frame_escape
    /\ delivered = fed

\* ------------------------------------------------------------------ raw calls, front door, pointer swap
\* the raw call of category cat returns in this step
RawReturns(cat) ==
    /\ pc[RawCaller] = "raw"
    /\ pc'[RawCaller] = "idle"
    /\ call[RawCaller].cat = cat

\* C31: a raw open/reopen/close/send/receive call that has run its pass of
\* single_operation returns only when its op has a final status, returns that
\* status, and leaves no pointer to its op record in the dispatcher.
C31_RawReturnsFinalAndReleased ==
    [][\A cat \in OpCats : RawReturns(cat) =>
          /\ ~is_operating(op[RawCaller].status)
          /\ returned'.status = op[RawCaller].status
          /\ ext_p'[cat] # RawCaller
          /\ tp'[cat] # RawCaller]_vars

\* thread c is turned away at the front door in this step: its call returns without
\* an op having been installed
RejectedAtFrontDoor(c) ==
    /\ pc[c] \in {"idle", "front"}
    /\ pc'[c] = "idle"
    /\ pc[c] = "front" \/ ncalls' # ncalls

\* C34: a call that is rejected at the front door leaves the open status, and with
\* it is_open(), as it was.
C34_RejectionKeepsOpenStatus ==
    [][\A c \in Callers : RejectedAtFrontDoor(c) => m_open_status' = m_open_status]_vars

\* the management step hands the external op pointers to the transport in this step
HandsOverPointers == mpc # "hook" /\ mpc' = "hook"

\* C40: whenever the pointer the management step hands to the transport for a
\* category differs from the one the transport holds, the one held is null.
C40_NoReplacementOfHeldOp ==
    [][HandsOverPointers =>
          \A cat \in OpCats : tp'[cat] # tp[cat] => tp[cat] = NULL]_vars

\* C39: once no receive callback is installed (a reopen that removed it has ended),
\* manual receives are not disabled and the dispatcher holds no pointer to the
\* callback's op record, neither in ext_p_recv_op nor in transactions.p_recv_op.
C39_RemovedCallbackReleased ==
    ~p_rx_callback =>
        /\ ~is_disabled(active_ops, RECEIVE)
        /\ ext_p[RECEIVE] # CB_OP
        /\ tp[RECEIVE] # CB_OP

\* ------------------------------------------------------------------ common options across opens
\* optional_setting_update_type_e (USE_EXISTING is UseExisting above)
UPDATE             == "UPDATE"
UPDATE_AUXILIARY_1 == "UPDATE_AUXILIARY_1"
USE_DEFAULT        == "USE_DEFAULT"

\* optional_setting<T>: a value and how it is to be applied
optional_setting(t, v) == [update_type |-> t, value |-> v]
has_update(s) == s.update_type = UPDATE

\* default_timeouts::open_timeout_ns, in ticks of the clock
open_timeout_ns == 2

\* overflow_safe::now_plus at clock reading t
now_plus(t, d) == t + d

\* what the setters of common_opts can leave in each member
TimeoutSettings ==
    { optional_setting(UseExisting, 0), optional_setting(USE_DEFAULT, 0),
      optional_setting(UPDATE, OpenDeadline), optional_setting(UPDATE_AUXILIARY_1, 1) }
CallbackSettings ==
    { optional_setting(UseExisting, NULL), optional_setting(UPDATE, "callback"),
      optional_setting(UPDATE, NULL) }
FilterSettings == { optional_setting(UseExisting, NULL), optional_setting(UPDATE, "filter") }
AutoReopenSettings ==
    { optional_setting(UseExisting, 0), optional_setting(UPDATE, 1), optional_setting(UPDATE, -1) }

\* common_opts
CommonOpts ==
    [m_timeout : TimeoutSettings, m_callback : CallbackSettings, m_rx_filter : FilterSettings,
     m_tx_filter : FilterSettings, m_auto_reopen_after : AutoReopenSettings]

\* common_opts::resolve_open_timeout at clock reading t
resolve_open_timeout(c, t, default_timeout_ns) ==
    CASE c.m_timeout.update_type = UPDATE -> c.m_timeout.value
      [] c.m_timeout.update_type = UPDATE_AUXILIARY_1 -> now_plus(t, c.m_timeout.value)
      [] OTHER -> now_plus(t, default_timeout_ns)

\* an endpoint that has not been opened: m_common_open_opts{}, no callback, no
\* filters, auto_reopen_after = -1; written_timeout is the open timeout the caller
\* wrote last (none yet)
OptsInit ==
    /\ DispatcherInit
    /\ NoFilter
    /\ open_args = << >>
    /\ open_cfg = [pc |-> "idle", now |-> 0, has_config |-> FALSE,
                   m_common_open_opts |->
                       [m_timeout |-> optional_setting(UseExisting, 0),
                        m_callback |-> optional_setting(UseExisting, NULL),
                        m_rx_filter |-> optional_setting(UseExisting, NULL),
                        m_tx_filter |-> optional_setting(UseExisting, NULL),
                        m_auto_reopen_after |-> optional_setting(UseExisting, 0)],
                   end_time |-> 0, p_rx_callback |-> NULL, rx_filter |-> NULL,
                   tx_filter |-> NULL, auto_reopen_after |-> -1,
                   written_timeout |-> optional_setting(UseExisting, 0)]

\* open(..., cfg) or reopen(cfg): open_and_reopen_pattern with p_open_config given,
\* up to the accept block of single_operation, which saves the options
OpenWithOptions(cfg) ==
    /\ open_cfg.pc = "idle"
    /\ open_cfg' = [open_cfg EXCEPT
          !.pc = "open",
          !.has_config = TRUE,
          !.end_time = resolve_open_timeout(cfg, open_cfg.now, open_timeout_ns),
          !.m_common_open_opts = cfg,
          !.written_timeout = IF cfg.m_timeout.update_type = UseExisting THEN @
                              ELSE cfg.m_timeout]
    /\ UNCHANGED << dvars, fvars, open_args >>

\* open(...) or reopen() without common options: p_open_config == nullptr, the
\* stored m_common_open_opts are used again
OpenWithoutOptions ==
    /\ open_cfg.pc = "idle"
    /\ open_cfg' = [open_cfg EXCEPT
          !.pc = "open",
          !.has_config = FALSE,
          !.end_time = resolve_open_timeout(open_cfg.m_common_open_opts, open_cfg.now,
                                            open_timeout_ns)]
    /\ UNCHANGED << dvars, fvars, open_args >>

\* end_transaction for the open, ended with status st after dt ticks: the stored
\* options are installed
EndOpen(st, dt) ==
    /\ open_cfg.pc = "open"
    /\ open_cfg.now + dt <= MaxTime
    /\ LET c    == open_cfg.m_common_open_opts
           auto == IF has_update(c.m_auto_reopen_after) THEN c.m_auto_reopen_after.value
                   ELSE open_cfg.auto_reopen_after
           inst == st = SUCCESS \/ auto >= 0
       IN  open_cfg' = [open_cfg EXCEPT
              !.pc = "idle",
              !.now = @ + dt,
              !.auto_reopen_after = auto,
              !.p_rx_callback = IF inst /\ has_update(c.m_callback) THEN c.m_callback.value ELSE @,
              !.rx_filter = IF inst /\ has_update(c.m_rx_filter) THEN c.m_rx_filter.value ELSE @,
              !.tx_filter = IF inst /\ has_update(c.m_tx_filter) THEN c.m_tx_filter.value ELSE @]
    /\ UNCHANGED << dvars, fvars, open_args >>

OptsNext ==
    \/ \E cfg \in CommonOpts : OpenWithOptions(cfg)
    \/ OpenWithoutOptions
    \/ \E st \in {SUCCESS, ERROR_CODE}, dt \in 0..1 : EndOpen(st, dt)

OptsSpec == OptsInit /\ [][OptsNext]_vars

\* an open with common options is made in this step, and one has ended in this step
OptionsGiven == open_cfg.pc = "idle" /\ open_cfg'.pc = "open" /\ open_cfg'.has_config
OptionsInstalled == open_cfg.pc = "open" /\ open_cfg'.pc = "idle" /\ open_cfg.has_config

\* the option is not set in the common options of the open under way
NotSet(s) == s.update_type = UseExisting

\* the callback, the filters and the auto-reopen interval an open did not set are
\* as they were when it has ended
KeepsInstalled ==
    LET c == open_cfg.m_common_open_opts IN
    /\ NotSet(c.m_callback) => open_cfg'.p_rx_callback = open_cfg.p_rx_callback
    /\ NotSet(c.m_rx_filter) => open_cfg'.rx_filter = open_cfg.rx_filter
    /\ NotSet(c.m_tx_filter) => open_cfg'.tx_filter = open_cfg.tx_filter
    /\ NotSet(c.m_auto_reopen_after) => open_cfg'.auto_reopen_after = open_cfg.auto_reopen_after

\* the open timeout an earlier open wrote is the one this open runs under
KeepsOpenTimeout ==
    (NotSet(open_cfg'.m_common_open_opts.m_timeout) /\ ~NotSet(open_cfg.written_timeout)) =>
        open_cfg'.end_time =
            resolve_open_timeout([m_timeout |-> open_cfg.written_timeout], open_cfg.now,
                                 open_timeout_ns)

\* C32: an open or reopen whose common options do not set an option (receive
\* callback, send filter, receive filter, auto-reopen interval, open timeout) leaves
\* the value an earlier open established in effect.
C32_UnsetOptionsKeepEarlierValue ==
    [][/\ OptionsGiven => KeepsOpenTimeout
       /\ OptionsInstalled => KeepsInstalled]_vars

\* ------------------------------------------------------------------ the open arguments and their mutex
\* the values of opts told apart
OpenOptsValues == { "opts1", "opts2" }

MANAGEMENT == "management thread"

\* a threadsafe endpoint with no call made: m_open_opts{}, m_open_opts_mutex free,
\* the management thread waiting for a request
ArgsInit ==
    /\ DispatcherInit
    /\ NoFilter
    /\ open_cfg = << >>
    /\ open_args = [m_open_opts |-> "opts{}", m_open_opts_initialized |-> FALSE,
                    m_open_opts_mutex |-> NULL,
                    pc |-> [c \in Callers |-> "idle"],
                    new_opts |-> [c \in Callers |-> "opts{}"],
                    out_opts |-> [c \in Callers |-> "opts{}"],
                    mpc |-> "wait", cat |-> "none", ext_p_open_opts |-> "opts{}",
                    touching |-> FALSE]

\* thread c calls get_open_args and comes to its lock_guard
get_open_args(c) ==
    /\ open_args.pc[c] = "idle"
    /\ open_args' = [open_args EXCEPT !.pc[c] = "get_open_args"]
    /\ UNCHANGED << dvars, fvars, open_cfg >>

\* thread c calls set_open_args(v) and comes to its lock_guard
set_open_args(c, v) ==
    /\ open_args.pc[c] = "idle"
    /\ open_args' = [open_args EXCEPT !.pc[c] = "set_open_args", !.new_opts[c] = v]
    /\ UNCHANGED << dvars, fvars, open_cfg >>

\* the lock_guard of get_open_args or set_open_args gets m_open_opts_mutex
OpenArgsLock(c) ==
    /\ open_args.pc[c] \in {"get_open_args", "set_open_args"}
    /\ open_args.m_open_opts_mutex = NULL
    /\ open_args' = [open_args EXCEPT
          !.m_open_opts_mutex = c,
          !.pc[c] = IF @ = "get_open_args" THEN "get_locked" ELSE "set_locked"]
    /\ UNCHANGED << dvars, fvars, open_cfg >>

\* what a copy of m_open_opts from or to the value v can leave behind: v, or, when a
\* hook is writing m_open_opts at the same time, any value (torn copies are not told
\* apart from whole ones)
CopyOutcomes(v) == IF open_args.touching THEN OpenOptsValues \cup { "opts{}" } ELSE { v }

\* the body of get_open_args or set_open_args, and the release of the mutex
OpenArgsReturn(c) ==
    /\ open_args.pc[c] \in {"get_locked", "set_locked"}
    /\ \E r \in CopyOutcomes(IF open_args.pc[c] = "get_locked" THEN open_args.m_open_opts
                              ELSE open_args.new_opts[c]) :
          open_args' = [open_args EXCEPT
             !.m_open_opts_mutex = NULL,
             !.pc[c] = "idle",
             !.out_opts[c] = IF open_args.pc[c] = "get_locked" /\ open_args.m_open_opts_initialized
                             THEN r ELSE @,
             !.m_open_opts = IF open_args.pc[c] = "set_locked" THEN r ELSE @,
             !.m_open_opts_initialized = (@ \/ open_args.pc[c] = "set_locked")]
    /\ UNCHANGED << dvars, fvars, open_cfg >>

\* a public call of category cat has been requested: the management thread wakes up
\* (v: the opts an open carries)
ArgsRequest(cat, v) ==
    /\ open_args.mpc = "wait"
    /\ open_args' = [open_args EXCEPT !.mpc = "accept", !.cat = cat, !.ext_p_open_opts = v]
    /\ UNCHANGED << dvars, fvars, open_cfg >>

\* single_operation accepts the request; for an open it saves the opts under the mutex
ArgsAccept ==
    /\ open_args.mpc = "accept"
    /\ IF open_args.cat = OPEN
       THEN /\ open_args.m_open_opts_mutex = NULL
            /\ open_args' = [open_args EXCEPT !.mpc = "hook",
                                !.m_open_opts_initialized = TRUE,
                                !.m_open_opts = open_args.ext_p_open_opts]
       ELSE open_args' = [open_args EXCEPT !.mpc = "hook"]
    /\ UNCHANGED << dvars, fvars, open_cfg >>

\* single_operation calls the hook: process_open with m_open_opts_mutex held,
\* process_close and process_send_receive without
ArgsHookCall ==
    /\ open_args.mpc = "hook"
    /\ IF open_args.cat = OPEN
       THEN /\ open_args.m_open_opts_mutex = NULL
            /\ open_args' = [open_args EXCEPT !.mpc = "process_open",
                                              !.m_open_opts_mutex = MANAGEMENT]
       ELSE open_args' = [open_args EXCEPT
               !.mpc = IF open_args.cat = CLOSE THEN "process_close"
                       ELSE "process_send_receive"]
    /\ UNCHANGED << dvars, fvars, open_cfg >>

InHook == open_args.mpc \in {"process_open", "process_close", "process_send_receive"}

\* the hook is at a statement that writes or reads m_open_opts (the peer address
\* recvfrom stores, the address sendto and bind use)
HookAccess(v) ==
    /\ InHook
    /\ ~open_args.touching
    /\ open_args' = [open_args EXCEPT !.touching = TRUE, !.m_open_opts = v]
    /\ UNCHANGED << dvars, fvars, open_cfg >>

\* the hook returns
HookReturn ==
    /\ InHook
    /\ open_args' = [open_args EXCEPT
          !.mpc = "end", !.touching = FALSE,
          !.m_open_opts_mutex = IF open_args.mpc = "process_open" THEN NULL ELSE @]
    /\ UNCHANGED << dvars, fvars, open_cfg >>

\* end_transaction: the OPEN case takes the mutex
ArgsEnd ==
    /\ open_args.mpc = "end"
    /\ open_args.cat = OPEN => open_args.m_open_opts_mutex = NULL
    /\ open_args' = [open_args EXCEPT !.mpc = "wait", !.cat = "none"]
    /\ UNCHANGED << dvars, fvars, open_cfg >>

ArgsNext ==
    \/ \E c \in Callers : get_open_args(c)
    \/ \E c \in Callers, v \in OpenOptsValues : set_open_args(c, v)
    \/ \E c \in Callers : OpenArgsLock(c)
    \/ \E c \in Callers : OpenArgsReturn(c)
    \/ \E cat \in OpCats, v \in OpenOptsValues : ArgsRequest(cat, v)
    \/ ArgsAccept
    \/ ArgsHookCall
    \/ \E v \in OpenOptsValues : HookAccess(v)
    \/ HookReturn
    \/ ArgsEnd

ArgsSpec == ArgsInit /\ [][ArgsNext]_vars

\* thread c is at the lock_guard of get_open_args or set_open_args
AtOpenArgsLock(c) == open_args.pc[c] \in {"get_open_args", "set_open_args"}

\* thread c is inside get_open_args or set_open_args, holding the mutex
InOpenArgs(c) == open_args.pc[c] \in {"get_locked", "set_locked"}

\* C33: get_open_args and set_open_args never have to wait for an operation in
\* flight, one inside a transport hook included, and a hook never reads or writes the
\* stored open arguments while another thread is inside get_open_args or set_open_args.
C33_OpenArgsIndependentOfTraffic ==
    /\ \A c \in Callers : AtOpenArgsLock(c) => open_args.m_open_opts_mutex # MANAGEMENT
    /\ \A c \in Callers : InOpenArgs(c) => ~open_args.touching

\* ------------------------------------------------------------------ delimit with a delimiter of several bytes
\* the delimiters tried: two bytes, alike or not
Delimiters == [1..2 -> {1, transposed_frame_end}]

\* a processor with delimit(d) installed as its only filter
DelimitInit ==
    /\ DispatcherInit
    /\ NoOpenArgs
    /\ \E d \in Delimiters, sending \in BOOLEAN : FilterInstalled(<< data_delimit(d) >>, sending)

DelimitSpec == DelimitInit /\ [][FilterNext]_vars

\* the bytes of the messages one after another
RECURSIVE Stream(_)
Stream(msgs) == IF Len(msgs) = 0 THEN << >> ELSE Head(msgs) \o Stream(Tail(msgs))

\* where the delimiter d occurs in the bytes s
Occurrences(s, d) == { i \in 1..(Len(s) - Len(d) + 1) : SubSeq(s, i, i + Len(d) - 1) = d }

\* the bytes before each occurrence of d in s, one occurrence after another; nothing
\* is given for an occurrence with no bytes before it
RECURSIVE Prefixes(_, _)
Prefixes(s, d) ==
    IF Occurrences(s, d) = {} THEN << >>
    ELSE LET i == CHOOSE j \in Occurrences(s, d) : \A k \in Occurrences(s, d) : j <= k
         IN  (IF i > 1 THEN << SubSeq(s, 1, i - 1) >> ELSE << >>)
                \o Prefixes(SubSeq(s, i + Len(d), Len(s)), d)

\* C37: whatever the delimiter of several bytes and however the stream is cut into
\* inputs, delimit hands on exactly the bytes before each occurrence of the whole
\* delimiter, in order and without the delimiter.
C37_DelimitEmitsPrefixes ==
    (Len(p_filter) = 1 /\ p_filter[1].kind = "data_delimit") =>
        DeliveredAsRef(Prefixes(Stream(fed), p_filter[1].bytes))

\* ------------------------------------------------------------------ storage planning, fixed sizes, delimiters
\* the array the planner has made the output storage of stage i
BestOutput(i) == flt.best[i].out

\* stage i is the tail of a receive chain writing into the user's receive buffer
TailIntoUserBuffer(i) == ~is_sending /\ i = Len(p_filter) /\ BestOutput(i) = user_rx_data

\* every stage but such a tail has an output storage of at least max_packet_size
FullSizeButTail ==
    \A i \in 1..Len(p_filter) :
        flt.mem[BestOutput(i)].max_size < max_packet_size => TailIntoUserBuffer(i)

\* the transport has delivered data to the internal receive of the chain
TransportDelivered == Present(filter_int_op) /\ filter_int_op.status = SUCCESS

\* the receive ends in this step because a filter found its storage too small
EndsExceededStorage ==
    ExtEnds /\ ~is_sending /\ last_end'.returned = ABORT_EXCEEDED_STORAGE

\* C35: the planner gives no stage an output storage smaller than max_packet_size,
\* but for the tail of a receive chain, which may get the user's smaller buffer; a
\* receive then fails for lack of storage only if the output is larger than that buffer.
C35_PlannerKeepsFullSizeButTail ==
    /\ []FullSizeButTail
    /\ [][EndsExceededStorage => OutputOverCapacity(RefNow)]_vars

\* the chain has an enforce_fixed_size stage and no split_if_larger stage
FixedSizeChain ==
    /\ \E i \in 1..Len(p_filter) : p_filter[i].kind = "enforce_fixed_size"
    /\ \A i \in 1..Len(p_filter) : p_filter[i].kind # "split_if_larger"

\* stage i is an enforce_fixed_size<N> whose output storage holds fewer than N bytes
FixedSizeOverStorage(i) ==
    /\ p_filter[i].kind = "enforce_fixed_size"
    /\ p_filter[i].n > flt.mem[BestOutput(i)].max_size

\* the chain is one enforce_fixed_size<N> on the receive side
FixedSizeAlone == ~is_sending /\ Len(p_filter) = 1 /\ p_filter[1].kind = "enforce_fixed_size"

\* C36: enforce_fixed_size<N> gathers the input bytes in order across inputs and
\* gives outputs of exactly N bytes; with an output storage of fewer than N bytes it
\* returns ABORT_EXCEEDED_STORAGE and writes nothing past the end of that storage.
C36_FixedSizeOrAbort ==
    /\ [](FixedSizeChain => ~flt.ovf)
    /\ [](FixedSizeAlone =>
             /\ IsPrefix(Stream(delivered), Stream(fed))
             /\ \A k \in 1..Len(delivered) : Len(delivered[k]) = p_filter[1].n)
    /\ [][(FixedSizeAlone /\ FixedSizeOverStorage(1) /\ TransportDelivered) =>
             (ExtEnds => last_end'.returned = ABORT_EXCEEDED_STORAGE)]_vars

\* C38: a receive never writes more bytes into the caller's buffer than the capacity
\* passed with it and never returns a received length above that capacity, whatever
\* the receive chain and whatever the transport delivers.
C38_ReceiveWithinCapacity ==
    ~is_sending =>
        /\ ~flt.ovf
        /\ last_end.status = SUCCESS => last_end.size <= last_end.cap

====
